---- MODULE Spec2Model ----
(***************************************************************************)
(* Thread-aware retrieval and synthesis engine of AIEmailSummary:          *)
(* the record store (vector_store.py), the orchestrator (rag_engine.py),   *)
(* the context formatter and generation client (llm_client.py) and the     *)
(* streaming transport (app.py).                                           *)
(*                                                                         *)
(* A stored record is [id, conversation_id, direction, is_replied,         *)
(* is_read, date, sender, n].  date is the ISO-8601 string of the record   *)
(* as a number that orders the same way; 0 is the empty string, which      *)
(* sorts before every timestamp.  n is the number of stored records the    *)
(* entry stands for: 1 for a single record, more for records that were     *)
(* ingested consecutively and agree on every metadata field (their ids     *)
(* differ; id then names the block).                                       *)
(***************************************************************************)
EXTENDS Integers, Sequences, FiniteSets, TLC

VARIABLES
    store,      \* the collection: sequence of stored records, insertion order
    last,       \* name of the operation that completed last
    ret,        \* what that operation returned
    email_context,  \* the records handed to the context formatter
    pc,         \* position of the request being handled
    mode,       \* "query" (blocking) or "query_stream"
    user_query, \* the query text of the request
    where,      \* the filter _build_where_filter composed
    calls,      \* the where arguments of the collection.query calls made
    emails,     \* the seed hits the search returned
    cursor,     \* index of the seed the expansion loop handles next
    seen_ids,   \* _expand_with_threads: ids already in the working set
    seen_conv_ids,  \* _expand_with_threads: conversations already fetched
    expanded,   \* _expand_with_threads: the working set
    fetches,    \* the get_thread_emails calls made: conversation id, failed or not
    events,     \* the events query_stream has yielded
    sse,        \* the frames the /api/chat response has emitted
    produced,   \* the fragments the generation backend has produced
    conn,       \* backend connection of chat_stream: "none", "open", "closed"
    llm_error,  \* the failure the generation backend reported; "" when none
    workers,    \* the add_emails calls in progress, one per ingestion thread
    handed,     \* the id lists handed to collection.add, with what it did
    passes,     \* meeting preparation: the hit lists of its search passes
    args,       \* the arguments of the helper function being called
    globals,    \* the module globals _store, _client, _engine; 0 is None
    instances,  \* the number of instances constructed, by class
    callers     \* the accessor calls in progress, one stack per server thread

expandVars == <<emails, cursor, seen_ids, seen_conv_ids, expanded, fetches>>
streamVars == <<events, sse, produced, conn, llm_error>>
reqVars == <<pc, mode, user_query, where, calls, expandVars, streamVars>>
ingestVars == <<workers, handed, passes, args>>
singletonVars == <<globals, instances, callers>>
vars == <<store, last, ret, email_context, reqVars, ingestVars, singletonVars>>

----------------------------------------------------------------------------
(* Bounds of the model                                                     *)

MaxStore == 3       \* entries a store holds at most
MaxContext == 3     \* records handed to the context formatter at most
MaxSeeds == 3       \* seed hits handed to _expand_with_threads at most
MaxMailbox == 2     \* records of the store a request is answered from
MaxLines == 2       \* lines the generation backend streams at most
MaxBatch == 2       \* emails of one add_emails call at most
MaxIds == 2         \* distinct unique_ids the ingested emails have
MaxCalls == 2       \* add_emails calls one ingestion thread makes at most
MaxAttendees == 4   \* attendees a meeting lists at most
MaxPrepStore == 11  \* records of the store a meeting is prepared from
MaxWords == 3       \* phrases a query text is made of at most
MaxClauses == 2     \* clauses of an intent filter at most
MaxWeeks == 2       \* weeks the clock of a time reference ranges over
MaxArchive == 12    \* records of the store a query with a large n_results runs on
MaxGets == 1        \* accessor calls a server thread makes

(* Program constants                                                       *)

ScanLimit == 5000   \* vector_store.py:161  limit=min(total, 5000)

ConvIds == {"", "c1", "c2"}                  \* "" = no conversation_id
Directions == {"sent", "received"}
Dates == {0, 1, 2}                           \* 0 = empty date string
Senders == {"", "a"}

----------------------------------------------------------------------------
(* No request is being handled                                             *)

\* the filter None: no restriction
NoFilter == [shape |-> "none", conds |-> <<>>]

Threads == {1, 2}

\* no add_emails call is in progress, no meeting is being prepared
\* no accessor has been called: the module globals are None
NoCallers ==
    /\ globals = [_store |-> 0, _client |-> 0, _engine |-> 0]
    /\ instances = [EmailVectorStore |-> 0, OllamaClient |-> 0, RAGEngine |-> 0]
    /\ callers = [t \in Threads |-> [stack |-> <<>>, received |-> <<>>]]

NoIngestion ==
    /\ workers = [t \in Threads |-> [pc |-> "idle", batch |-> <<>>, i |-> 1,
                                     ids |-> <<>>, added |-> 0,
                                     inserted |-> 0, done |-> 0]]
    /\ handed = <<>>
    /\ passes = <<>>
    /\ args = <<>>
    /\ NoCallers

NoRequest ==
    /\ pc = "idle"
    /\ mode = "none"
    /\ user_query = <<>>
    /\ where = NoFilter
    /\ calls = <<>>
    /\ emails = <<>>
    /\ cursor = 1
    /\ seen_ids = {}
    /\ seen_conv_ids = {}
    /\ expanded = <<>>
    /\ fetches = <<>>
    /\ events = <<>>
    /\ sse = <<>>
    /\ produced = <<>>
    /\ conn = "none"
    /\ llm_error = ""
    /\ NoIngestion

----------------------------------------------------------------------------
(* Sequence helpers                                                        *)

RECURSIVE SumN(_)
SumN(s) == IF s = <<>> THEN 0 ELSE Head(s).n + SumN(Tail(s))

RECURSIVE SeqIds(_)
SeqIds(s) == IF s = <<>> THEN <<>> ELSE <<Head(s).id>> \o SeqIds(Tail(s))

(* list.sort(key=date): stable, ascending *)
RECURSIVE InsertByDate(_, _)
InsertByDate(sorted, x) ==
    IF sorted = <<>> THEN <<x>>
    ELSE IF Head(sorted).date <= x.date
         THEN <<Head(sorted)>> \o InsertByDate(Tail(sorted), x)
         ELSE <<x>> \o sorted

RECURSIVE SortByDate(_)
SortByDate(s) ==
    IF s = <<>> THEN <<>>
    ELSE InsertByDate(SortByDate(SubSeq(s, 1, Len(s) - 1)), s[Len(s)])

(* list.sort(key=date, reverse=True): stable, descending *)
RECURSIVE InsertByDateDesc(_, _)
InsertByDateDesc(sorted, x) ==
    IF sorted = <<>> THEN <<x>>
    ELSE IF Head(sorted).date >= x.date
         THEN <<Head(sorted)>> \o InsertByDateDesc(Tail(sorted), x)
         ELSE <<x>> \o sorted

RECURSIVE SortByDateDesc(_)
SortByDateDesc(s) ==
    IF s = <<>> THEN <<>>
    ELSE InsertByDateDesc(SortByDateDesc(SubSeq(s, 1, Len(s) - 1)), s[Len(s)])

(* keys of a dict filled with setdefault, in insertion order *)
RECURSIVE ThreadKeys(_, _)
ThreadKeys(s, seen) ==
    IF s = <<>> THEN <<>>
    ELSE LET c == Head(s).conversation_id IN
         IF c # "" /\ c \notin seen
         THEN <<c>> \o ThreadKeys(Tail(s), seen \cup {c})
         ELSE ThreadKeys(Tail(s), seen)

SelectConv(s, c) == SelectSeq(s, LAMBDA m : m.conversation_id = c)

\* seq[:k]
Take(seq, k) == SubSeq(seq, 1, IF Len(seq) < k THEN Len(seq) ELSE k)

----------------------------------------------------------------------------
(* The collection (ChromaDB)                                               *)

CollectionCount(coll) == SumN(coll)

(* collection.get(limit=k): the first k stored records *)
RECURSIVE CollectionGet(_, _)
CollectionGet(coll, k) ==
    IF coll = <<>> \/ k <= 0 THEN <<>>
    ELSE IF Head(coll).n <= k
         THEN <<Head(coll)>> \o CollectionGet(Tail(coll), k - Head(coll).n)
         ELSE <<[Head(coll) EXCEPT !.n = k]>>

StoredIds(coll) == {coll[i].id : i \in 1..Len(coll)}

RECURSIVE HasDuplicates(_)
HasDuplicates(s) ==
    IF s = <<>> THEN FALSE
    ELSE (\E i \in 2..Len(s) : s[i] = s[1]) \/ HasDuplicates(Tail(s))

(* add_emails: the emails of the batch whose id the collection does not hold
   yet are handed to collection.add in one call *)
NewOfBatch(coll, batch) == SelectSeq(batch, LAMBDA e : e.id \notin StoredIds(coll))

add_emails(coll, batch) ==
    LET new == NewOfBatch(coll, batch) IN
    IF new = <<>> THEN [coll |-> coll, added |-> 0, raised |-> FALSE]
    ELSE IF HasDuplicates(SeqIds(new))
         THEN [coll |-> coll, added |-> 0, raised |-> TRUE]
         ELSE [coll |-> coll \o new, added |-> SumN(new), raised |-> FALSE]

----------------------------------------------------------------------------
(* Open-item aggregation (vector_store.get_open_items)                     *)

\* ThreadStatus with the reply flag consulted for sent mail as well
ThreadStatus_SentNeedsUnreplied(latest) ==
    IF latest.direction = "received" /\ ~latest.is_replied THEN "needs_action"
    ELSE IF latest.direction = "sent" /\ ~latest.is_replied THEN "awaiting_response"
    ELSE "completed"

(* status of a thread, from its chronologically last message *)
ThreadStatus(latest) ==
    IF latest.direction = "received" /\ ~latest.is_replied THEN "needs_action"
    ELSE IF latest.direction = "sent" THEN "awaiting_response"
    ELSE IF latest.direction = "received" /\ latest.is_replied THEN "completed"
    ELSE "completed"

\* the messages of one conversation with the undated ones ordered last
ThreadMessages_UndatedLast(results, c) ==
    SortByDate(SelectSeq(SelectConv(results, c), LAMBDA m : m.date # 0))
        \o SelectSeq(SelectConv(results, c), LAMBDA m : m.date = 0)

(* the messages of one conversation, sorted by date; the last is the oracle *)
ThreadMessages(results, c) == SortByDate(SelectConv(results, c))

Latest(messages) == messages[Len(messages)]

Participants(messages) ==
    {messages[i].sender : i \in {j \in 1..Len(messages) : messages[j].sender # ""}}

ThreadItem(results, c) ==
    LET messages == ThreadMessages(results, c)
        latest == Latest(messages)
    IN [conversation_id |-> c,
        sender |-> latest.sender,
        date |-> latest.date,
        message_count |-> SumN(messages),
        status |-> ThreadStatus(latest),
        participants |-> Participants(messages),
        n |-> 1]

RECURSIVE ThreadItems(_, _)
ThreadItems(results, keys) ==
    IF keys = <<>> THEN <<>>
    ELSE LET item == ThreadItem(results, Head(keys)) IN
         (IF item.status = "completed" THEN <<>> ELSE <<item>>)
             \o ThreadItems(results, Tail(keys))

(* records without conversation_id: kept when received and not replied *)
Standalone(results) ==
    SelectSeq(results, LAMBDA m : m.conversation_id = ""
                                  /\ m.direction = "received" /\ ~m.is_replied)

RECURSIVE StandaloneItems(_)
StandaloneItems(s) ==
    IF s = <<>> THEN <<>>
    ELSE <<[conversation_id |-> "",
            sender |-> Head(s).sender,
            date |-> Head(s).date,
            message_count |-> 1,
            status |-> "needs_action",
            participants |-> {Head(s).sender},
            n |-> Head(s).n]>> \o StandaloneItems(Tail(s))

(* the records the scan reads: collection.get(limit=min(total, 5000)) *)
Scanned(coll) ==
    LET total == CollectionCount(coll) IN
    CollectionGet(coll, IF total < ScanLimit THEN total ELSE ScanLimit)

\* get_open_items without the final sort
get_open_items_Unsorted(coll, fault) ==
    IF fault THEN <<>>
    ELSE IF CollectionCount(coll) = 0 THEN <<>>
    ELSE LET results == Scanned(coll) IN
         ThreadItems(results, ThreadKeys(results, {}))
             \o StandaloneItems(Standalone(results))

(* fault: collection.count or collection.get raised; the handler returns [] *)
get_open_items(coll, fault) ==
    IF fault THEN <<>>
    ELSE IF CollectionCount(coll) = 0 THEN <<>>
    ELSE LET results == Scanned(coll) IN
         SortByDateDesc(ThreadItems(results, ThreadKeys(results, {}))
                        \o StandaloneItems(Standalone(results)))

----------------------------------------------------------------------------
(* The store and its open items: emails are ingested, the open items are
   listed.                                                                 *)

\* emails a caller hands to add_emails: a fresh id or one already stored
OpenEmails(coll) ==
    [id : 1..(IF Len(coll) < MaxStore THEN Len(coll) + 1 ELSE MaxStore),
     conversation_id : ConvIds, direction : Directions, is_replied : BOOLEAN,
     is_read : {TRUE}, date : Dates, sender : Senders, n : {1}]

\* an archive of ScanLimit older messages ingested in one run
ArchiveEmails(coll) ==
    [id : {Len(coll) + 1},
     conversation_id : {"", "c1"}, direction : {"received"}, is_replied : BOOLEAN,
     is_read : {TRUE}, date : {1}, sender : {"a"}, n : {ScanLimit}]

OpenInit ==
    /\ store = <<>>
    /\ last = "init"
    /\ ret = <<>>
    /\ email_context = <<>>
    /\ NoRequest

OpenAddEmails ==
    /\ Len(store) < MaxStore
    /\ \E e \in OpenEmails(store) :
          LET r == add_emails(store, <<e>>) IN
          /\ store' = r.coll
          /\ last' = "add_emails"
          /\ ret' = <<>>
          /\ UNCHANGED <<email_context, reqVars>>
    /\ UNCHANGED <<ingestVars, singletonVars>>

OpenIngestArchive ==
    /\ Len(store) < MaxStore
    /\ \E e \in ArchiveEmails(store) :
          LET r == add_emails(store, <<e>>) IN
          /\ store' = r.coll
          /\ last' = "add_emails"
          /\ ret' = <<>>
          /\ UNCHANGED <<email_context, reqVars>>
    /\ UNCHANGED <<ingestVars, singletonVars>>

OpenGetOpenItems ==
    /\ \E fault \in BOOLEAN :
          /\ ret' = get_open_items(store, fault)
          /\ last' = IF fault THEN "get_open_items_fault" ELSE "get_open_items"
    /\ UNCHANGED <<store, email_context, reqVars>>
    /\ UNCHANGED <<ingestVars, singletonVars>>

OpenNext == OpenAddEmails \/ OpenIngestArchive \/ OpenGetOpenItems

SpecOpen == OpenInit /\ [][OpenNext]_vars

----------------------------------------------------------------------------
(* Properties of the open items                                            *)

\* the index, in a non-empty list of records, of the chronologically last
\* one: the greatest date, and among equal dates the one listed last
OracleIndex(group) ==
    CHOOSE i \in 1..Len(group) :
        \A j \in 1..Len(group) :
            \/ group[j].date < group[i].date
            \/ group[j].date = group[i].date /\ j <= i

ExpectedStatus(rec) ==
    CASE rec.direction = "received" /\ ~rec.is_replied -> "needs_action"
      [] rec.direction = "sent" -> "awaiting_response"
      [] rec.direction = "received" /\ rec.is_replied -> "completed"

ItemsOf(items, c) == SelectSeq(items, LAMBDA it : it.conversation_id = c)

\* the status the listing gives conversation c; "absent" when it lists none
StatusIn(items, c) ==
    IF ItemsOf(items, c) = <<>> THEN "absent" ELSE ItemsOf(items, c)[1].status

ConvsOf(recs) == {recs[i].conversation_id : i \in 1..Len(recs)} \ {""}

\* C3: every thread group get_open_items builds gets the status of its
\* chronologically last record: received and not replied is needs_action,
\* sent (replied or not) is awaiting_response, received and replied is
\* completed, and a completed thread is not listed.
C3_StatusFromLastRecord ==
    last = "get_open_items" =>
        \A c \in ConvsOf(Scanned(store)) :
            LET group == SelectConv(Scanned(store), c)
                want == ExpectedStatus(group[OracleIndex(group)])
            IN IF want = "completed"
               THEN ItemsOf(ret, c) = <<>>
               ELSE Len(ItemsOf(ret, c)) = 1 /\ ItemsOf(ret, c)[1].status = want

\* Scenario 2: three records T1 < T2 < T3 of one thread, T1 received and not
\* replied, T3 sent and not replied; the thread is listed awaiting_response.
C3_Witness ==
    /\ last = "get_open_items"
    /\ Len(store) = 3
    /\ \A i \in 1..3 : store[i].conversation_id = "c1" /\ store[i].n = 1
    /\ store[1].date < store[2].date /\ store[2].date < store[3].date
    /\ store[1].direction = "received" /\ ~store[1].is_replied
    /\ store[3].direction = "sent" /\ ~store[3].is_replied
    /\ StatusIn(ret, "c1") = "awaiting_response"

\* the stores that differ from coll only in the direction / is_replied of
\* one record of conversation c that is not its chronologically last one
NonLastVariants(coll, c) ==
    LET idx == {i \in 1..Len(coll) : coll[i].conversation_id = c}
        lastIdx == CHOOSE i \in idx :
                     \A j \in idx : \/ coll[j].date < coll[i].date
                                    \/ coll[j].date = coll[i].date /\ j <= i
    IN {[coll EXCEPT ![i].direction = d, ![i].is_replied = r] :
            i \in idx \ {lastIdx}, d \in Directions, r \in BOOLEAN}

\* C2: the status of a thread (and whether it is listed) is the same for two
\* store contents that differ only in the direction / is_replied of records
\* of the thread other than the one with the greatest timestamp.
C2_StatusIgnoresNonLast ==
    last = "get_open_items" =>
        \A c \in ConvsOf(store) :
            \A other \in NonLastVariants(store, c) :
                StatusIn(get_open_items(other, FALSE), c) = StatusIn(ret, c)

\* C5: the listing holds exactly one item per stored thread whose
\* chronologically last stored record is not completed, with message_count
\* the number of stored records of the thread and participants its distinct
\* non-empty senders; a completed thread is not listed.
C5_OneItemPerOpenThread ==
    last = "get_open_items" =>
        \A c \in ConvsOf(store) :
            LET group == SelectConv(store, c)
                want == ExpectedStatus(group[OracleIndex(group)])
            IN IF want = "completed"
               THEN ItemsOf(ret, c) = <<>>
               ELSE /\ Len(ItemsOf(ret, c)) = 1
                    /\ ItemsOf(ret, c)[1].status = want
                    /\ ItemsOf(ret, c)[1].message_count = SumN(group)
                    /\ ItemsOf(ret, c)[1].participants
                         = {group[i].sender : i \in 1..Len(group)} \ {""}

----------------------------------------------------------------------------
(* Context formatter (llm_client._format_email_context)                    *)

\* the status label of a rendered thread, from its last message
ThreadLabel(latest) ==
    IF latest.direction = "sent" /\ ~latest.is_replied THEN "AWAITING RESPONSE"
    ELSE IF latest.direction = "received" /\ ~latest.is_replied
         THEN "NEEDS YOUR ACTION"
         ELSE "COMPLETED"

ThreadHeader(thread_emails, c) ==
    [kind |-> "thread", conversation_id |-> c,
     thread_status |-> ThreadLabel(Latest(thread_emails)),
     messages |-> Len(thread_emails), idx |-> 0, id |-> 0]

\* the messages of one thread, numbered from idx
RECURSIVE RenderMessages(_, _, _)
RenderMessages(thread_emails, c, idx) ==
    IF thread_emails = <<>> THEN <<>>
    ELSE <<[kind |-> "message", conversation_id |-> c, thread_status |-> "",
            messages |-> 0, idx |-> idx, id |-> Head(thread_emails).id]>>
         \o RenderMessages(Tail(thread_emails), c, idx + 1)

RECURSIVE RenderThreads(_, _, _)
RenderThreads(recs, keys, idx) ==
    IF keys = <<>> THEN <<>>
    ELSE LET thread_emails == SortByDate(SelectConv(recs, Head(keys))) IN
         <<ThreadHeader(thread_emails, Head(keys))>>
         \o RenderMessages(thread_emails, Head(keys), idx)
         \o RenderThreads(recs, Tail(keys), idx + Len(thread_emails))

RECURSIVE RenderStandalone(_, _)
RenderStandalone(standalone, idx) ==
    IF standalone = <<>> THEN <<>>
    ELSE <<[kind |-> "standalone", conversation_id |-> "", thread_status |-> "",
            messages |-> 0, idx |-> idx, id |-> Head(standalone).id]>>
         \o RenderStandalone(Tail(standalone), idx + 1)

\* the standalone records are rendered, and numbered, before the threads
_format_email_context_StandaloneFirst(recs) ==
    IF recs = <<>> THEN [sentinel |-> TRUE, parts |-> <<>>]
    ELSE LET keys == ThreadKeys(recs, {})
             standalone == SelectConv(recs, "")
         IN [sentinel |-> FALSE,
             parts |-> RenderStandalone(standalone, 1)
                       \o RenderThreads(recs, keys, 1 + Len(standalone))]

\* sentinel: the fixed "No relevant recs found in the database." text
_format_email_context(recs) ==
    IF recs = <<>> THEN [sentinel |-> TRUE, parts |-> <<>>]
    ELSE LET keys == ThreadKeys(recs, {})
             standalone == SelectConv(recs, "")
             threaded == SelectSeq(recs, LAMBDA e : e.conversation_id # "")
         IN [sentinel |-> FALSE,
             parts |-> RenderThreads(recs, keys, 1)
                       \o RenderStandalone(standalone, 1 + Len(threaded))]

----------------------------------------------------------------------------
(* The formatter on the working sets a caller can hand it                  *)

FormatEmails(ctx) ==
    [id : {Len(ctx) + 1},
     conversation_id : ConvIds, direction : Directions, is_replied : BOOLEAN,
     is_read : {TRUE}, date : Dates, sender : {"a"}, n : {1}]

FormatInit ==
    /\ store = <<>>
    /\ last = "init"
    /\ ret = <<>>
    /\ email_context = <<>>
    /\ NoRequest

FormatAppend ==
    /\ Len(email_context) < MaxContext
    /\ \E e \in FormatEmails(email_context) :
          email_context' = Append(email_context, e)
    /\ last' = "append"
    /\ ret' = <<>>
    /\ UNCHANGED <<store, reqVars>>
    /\ UNCHANGED <<ingestVars, singletonVars>>

\* the formatter sorts the list it was handed
FormatContext_SortsInput ==
    /\ ret' = _format_email_context(email_context)
    /\ last' = "_format_email_context"
    /\ email_context' = SortByDate(email_context)
    /\ UNCHANGED <<store, reqVars>>
    /\ UNCHANGED <<ingestVars, singletonVars>>

FormatContext ==
    /\ ret' = _format_email_context(email_context)
    /\ last' = "_format_email_context"
    /\ UNCHANGED <<store, email_context, reqVars>>
    /\ UNCHANGED <<ingestVars, singletonVars>>

FormatNext == FormatAppend \/ FormatContext

SpecFormat == FormatInit /\ [][FormatNext]_vars

\* the label that names the same status as get_open_items
LabelOfStatus(status) ==
    CASE status = "awaiting_response" -> "AWAITING RESPONSE"
      [] status = "needs_action" -> "NEEDS YOUR ACTION"
      [] status = "completed" -> "COMPLETED"

\* C4: the label of every rendered thread names the status get_open_items
\* derives from the last record of the rendered thread.
C4_LabelSameAsOpenItems ==
    last = "_format_email_context" =>
        \A k \in 1..Len(ret.parts) :
            ret.parts[k].kind = "thread" =>
                LET group == SelectConv(email_context, ret.parts[k].conversation_id)
                IN ret.parts[k].thread_status
                     = LabelOfStatus(ThreadStatus(group[OracleIndex(group)]))

----------------------------------------------------------------------------
(* Thread expansion (rag_engine._expand_with_threads)                      *)

\* the lookup returns the first record of the thread only
get_thread_emails_First(coll, conversation_id, fault) ==
    IF conversation_id = "" \/ fault THEN <<>>
    ELSE Take(SortByDate(SelectConv(coll, conversation_id)), 1)

\* fault: collection.get raised; the lookup is logged and returns []
get_thread_emails(coll, conversation_id, fault) ==
    IF conversation_id = "" THEN <<>>
    ELSE IF fault THEN <<>>
    ELSE SortByDate(SelectConv(coll, conversation_id))

\* the seed is skipped whatever was seen before
SeedSeen_Never(email, seen) == FALSE

\* line 120: a seed whose id is already in the working set is skipped
SeedSeen(email, seen) == email.id \in seen

\* lines 129-133: the thread's records not seen yet are appended
RECURSIVE AppendThread(_, _, _)
AppendThread(thread_emails, seen, out) ==
    IF thread_emails = <<>> THEN [seen |-> seen, out |-> out]
    ELSE LET te == Head(thread_emails) IN
         IF te.id \notin seen
         THEN AppendThread(Tail(thread_emails), seen \cup {te.id}, Append(out, te))
         ELSE AppendThread(Tail(thread_emails), seen, out)

\* one iteration of the loop over the seed hits
ExpandStep ==
    /\ pc = "expand"
    /\ cursor <= Len(emails)
    /\ LET email == emails[cursor]
           conv_id == email.conversation_id
       IN IF SeedSeen(email, seen_ids)
          THEN UNCHANGED <<seen_ids, seen_conv_ids, expanded, fetches>>
          ELSE IF conv_id # "" /\ conv_id \notin seen_conv_ids
               THEN \E fault \in BOOLEAN :
                      LET thread_emails == get_thread_emails(store, conv_id, fault)
                          r == AppendThread(thread_emails,
                                            seen_ids \cup {email.id}, expanded)
                      IN /\ seen_conv_ids' = seen_conv_ids \cup {conv_id}
                         /\ fetches' = Append(fetches, [conversation_id |-> conv_id,
                                                         failed |-> fault])
                         /\ seen_ids' = r.seen
                         /\ expanded' =
                              IF email.id \notin {r.out[k].id : k \in 1..Len(r.out)}
                              THEN Append(r.out, email)
                              ELSE r.out
               ELSE /\ seen_ids' = seen_ids \cup {email.id}
                    /\ expanded' = Append(expanded, email)
                    /\ UNCHANGED <<seen_conv_ids, fetches>>
    /\ cursor' = cursor + 1
    /\ UNCHANGED <<store, last, ret, email_context, pc, mode, user_query,
                   where, calls, emails, streamVars>>
    /\ UNCHANGED <<ingestVars, singletonVars>>

\* the loop is over: the working set is returned
ExpandReturn ==
    /\ pc = "expand"
    /\ cursor > Len(emails)
    /\ pc' = "expanded"
    /\ UNCHANGED <<store, last, ret, email_context, mode, user_query,
                   where, calls, expandVars, streamVars>>
    /\ UNCHANGED <<ingestVars, singletonVars>>

----------------------------------------------------------------------------
(* The expansion on every seed list over every store                       *)

\* stores of k records; the record at position i has id i
StoresOfLen(k, convs, dirs, replied, dates) ==
    {[i \in 1..k |-> [id |-> i, conversation_id |-> f[i].c, direction |-> f[i].d,
                      is_replied |-> f[i].r, is_read |-> TRUE, date |-> f[i].t,
                      sender |-> "a", n |-> 1]] :
        f \in [1..k -> [c : convs, d : dirs, r : replied, t : dates]]}

ExpandStores ==
    UNION {StoresOfLen(k, ConvIds, {"received"}, {FALSE}, {1}) : k \in 0..MaxStore}

\* seed lists: hits on stored records, in any order, repeats included
SeedLists(coll) ==
    UNION {{[i \in 1..k |-> coll[f[i]]] : f \in [1..k -> 1..Len(coll)]} :
              k \in 0..MaxSeeds}

ExpandInit ==
    /\ store \in ExpandStores
    /\ emails \in SeedLists(store)
    /\ pc = "expand"
    /\ last = "init"
    /\ ret = <<>>
    /\ email_context = <<>>
    /\ mode = "none"
    /\ user_query = <<>>
    /\ where = NoFilter
    /\ calls = <<>>
    /\ cursor = 1
    /\ seen_ids = {}
    /\ seen_conv_ids = {}
    /\ expanded = <<>>
    /\ fetches = <<>>
    /\ events = <<>>
    /\ sse = <<>>
    /\ produced = <<>>
    /\ conn = "none"
    /\ llm_error = ""
    /\ NoIngestion

ExpandNext == ExpandStep \/ ExpandReturn

SpecExpand == ExpandInit /\ [][ExpandNext]_vars

IdsOf(recs) == {recs[k].id : k \in 1..Len(recs)}

NoIdTwice(recs) ==
    \A j, k \in 1..Len(recs) : recs[j].id = recs[k].id => j = k

\* C1: the working set _expand_with_threads returns holds no id twice and
\* holds the id of every seed hit, whatever the store holds and whether
\* the thread lookups succeed, fail or find nothing; an empty seed list
\* gives an empty working set.
C1_ExpansionDedupSuperset ==
    /\ NoIdTwice(expanded)
    /\ pc = "expanded" =>
          /\ IdsOf(emails) \subseteq IdsOf(expanded)
          /\ emails = <<>> => expanded = <<>>

\* a seed list that names a record twice and two records of one thread has
\* been expanded, and the one thread lookup made found nothing
C1_Witness ==
    /\ pc = "expanded"
    /\ expanded # <<>> /\ expanded[1].id = emails[1].id
    /\ Len(emails) = 3
    /\ emails[1].id = emails[3].id
    /\ emails[1].id # emails[2].id
    /\ emails[1].conversation_id # ""
    /\ emails[1].conversation_id = emails[2].conversation_id
    /\ Len(fetches) = 1
    /\ Len(expanded) = 2

----------------------------------------------------------------------------
(* Query texts: sequences of characters                                    *)

\* str.lower on the characters a query holds
LowerChar(c) ==
    CASE c = "A" -> "a"
      [] c = "B" -> "b"
      [] c = "C" -> "c"
      [] c = "D" -> "d"
      [] c = "E" -> "e"
      [] c = "F" -> "f"
      [] c = "G" -> "g"
      [] c = "H" -> "h"
      [] c = "I" -> "i"
      [] c = "J" -> "j"
      [] c = "K" -> "k"
      [] c = "L" -> "l"
      [] c = "M" -> "m"
      [] c = "N" -> "n"
      [] c = "O" -> "o"
      [] c = "P" -> "p"
      [] c = "Q" -> "q"
      [] c = "R" -> "r"
      [] c = "S" -> "s"
      [] c = "T" -> "t"
      [] c = "U" -> "u"
      [] c = "V" -> "v"
      [] c = "W" -> "w"
      [] c = "X" -> "x"
      [] c = "Y" -> "y"
      [] c = "Z" -> "z"
      [] OTHER -> c

Lower(q) == [i \in 1..Len(q) |-> LowerChar(q[i])]

\* kw in q
Contains(q, kw) ==
    \E i \in 1..(Len(q) - Len(kw) + 1) : SubSeq(q, i, i + Len(kw) - 1) = kw

ContainsAny(q, kws) == \E k \in 1..Len(kws) : Contains(q, kws[k])

ActionKeywords ==
    <<<<"a", "c", "t", "i", "o", "n">>,
      <<"t", "o", "d", "o">>,
      <<"t", "o", "-", "d", "o">>,
      <<"n", "e", "e", "d", " ", "t", "o">>,
      <<"s", "h", "o", "u", "l", "d">>,
      <<"m", "u", "s", "t">>,
      <<"p", "e", "n", "d", "i", "n", "g">>,
      <<"w", "a", "i", "t", "i", "n", "g">>>>

FollowupKeywords ==
    <<<<"i", " ", "s", "e", "n", "t">>,
      <<"m", "y", " ", "s", "e", "n", "t">>,
      <<"h", "a", "v", "e", "n", "'", "t", " ", "h", "e", "a", "r", "d">>,
      <<"n", "o", " ", "r", "e", "s", "p", "o", "n", "s", "e">>,
      <<"w", "a", "i", "t", "i", "n", "g", " ", "f", "o", "r", " ", "r", "e", "p", "l", "y">>,
      <<"f", "o", "l", "l", "o", "w", " ", "u", "p">>>>

KwUnread == <<"u", "n", "r", "e", "a", "d">>
KwToday == <<"t", "o", "d", "a", "y">>
KwYesterday == <<"y", "e", "s", "t", "e", "r", "d", "a", "y">>
KwThisWeek == <<"t", "h", "i", "s", " ", "w", "e", "e", "k">>
KwLastWeek == <<"l", "a", "s", "t", " ", "w", "e", "e", "k">>
KwPast == <<"p", "a", "s", "t">>
KwLast == <<"l", "a", "s", "t">>
KwDay == <<"d", "a", "y">>

----------------------------------------------------------------------------
(* Query intent (rag_engine._detect_query_type)                            *)

\* a filter clause {field: value}; values are kept as the text of the value
Clause(field, val) ==
    [field |-> field, op |-> "$eq", sval |-> val, nval |-> 0, sub |-> <<>>]

\* the rule of the sent follow-ups is tried before the rule of the actions
_detect_query_type_FollowupFirst(query) ==
    LET q == Lower(query) IN
    IF ContainsAny(q, FollowupKeywords)
    THEN [type |-> "sent_followup",
          filters |-> <<Clause("direction", "sent"), Clause("is_replied", "False")>>]
    ELSE IF ContainsAny(q, ActionKeywords)
    THEN [type |-> "action_needed",
          filters |-> <<Clause("direction", "received"), Clause("is_replied", "False")>>]
    ELSE IF Contains(q, KwUnread)
    THEN [type |-> "unread",
          filters |-> <<Clause("is_read", "False"), Clause("direction", "received")>>]
    ELSE [type |-> "general", filters |-> <<>>]

_detect_query_type(query) ==
    LET q == Lower(query) IN
    IF ContainsAny(q, ActionKeywords)
    THEN [type |-> "action_needed",
          filters |-> <<Clause("direction", "received"), Clause("is_replied", "False")>>]
    ELSE IF ContainsAny(q, FollowupKeywords)
    THEN [type |-> "sent_followup",
          filters |-> <<Clause("direction", "sent"), Clause("is_replied", "False")>>]
    ELSE IF Contains(q, KwUnread)
    THEN [type |-> "unread",
          filters |-> <<Clause("is_read", "False"), Clause("direction", "received")>>]
    ELSE [type |-> "general", filters |-> <<>>]

----------------------------------------------------------------------------
(* Time references (rag_engine._parse_time_reference)                      *)
(* A datetime is its number of seconds since 00:00 of a Monday.            *)

Day == 86400            \* seconds of a day
Hour == 3600
Minute == 60

weekday(t) == (t \div Day) % 7                  \* Monday is 0
Midnight(t) == t - (t % Day)                    \* replace(hour=0, minute=0, second=0)

Digits == <<"0", "1", "2", "3", "4", "5", "6", "7", "8", "9">>
IsDigit(c) == \E d \in 1..10 : Digits[d] = c
DigitVal(c) == (CHOOSE d \in 1..10 : Digits[d] = c) - 1
IsSpace(c) == c = " "

\* the first position from i on that holds no character of the class
RECURSIVE SkipSpaces(_, _)
SkipSpaces(q, i) == IF i <= Len(q) /\ IsSpace(q[i]) THEN SkipSpaces(q, i + 1) ELSE i

RECURSIVE SkipDigits(_, _)
SkipDigits(q, i) == IF i <= Len(q) /\ IsDigit(q[i]) THEN SkipDigits(q, i + 1) ELSE i

\* int() of the digits q[i..j-1]
RECURSIVE IntOf(_, _, _)
IntOf(q, i, j) == IF i >= j THEN 0 ELSE IntOf(q, i, j - 1) * 10 + DigitVal(q[j - 1])

StartsAt(q, i, kw) == i + Len(kw) - 1 <= Len(q) /\ SubSeq(q, i, i + Len(kw) - 1) = kw

\* the pattern with a number that is not zero
DaysMatchAt_PositiveOnly(q, i) ==
    IF ~(StartsAt(q, i, KwPast) \/ StartsAt(q, i, KwLast)) THEN -1
    ELSE LET a == i + 4
             b == SkipSpaces(q, a)
             c == SkipDigits(q, b)
             d == SkipSpaces(q, c)
         IN IF b > a /\ c > b /\ d > c /\ StartsAt(q, d, KwDay) /\ IntOf(q, b, c) > 0
            THEN IntOf(q, b, c) ELSE -1

\* (?:past|last)\s+(\d+)\s+days? matched at position i: the number, or -1
DaysMatchAt(q, i) ==
    IF ~(StartsAt(q, i, KwPast) \/ StartsAt(q, i, KwLast)) THEN -1
    ELSE LET a == i + 4
             b == SkipSpaces(q, a)
             c == SkipDigits(q, b)
             d == SkipSpaces(q, c)
         IN IF b > a /\ c > b /\ d > c /\ StartsAt(q, d, KwDay)
            THEN IntOf(q, b, c) ELSE -1

\* re.search: the leftmost match
RECURSIVE DaysSearch(_, _)
DaysSearch(q, i) ==
    IF i > Len(q) THEN -1
    ELSE IF DaysMatchAt(q, i) >= 0 THEN DaysMatchAt(q, i)
    ELSE DaysSearch(q, i + 1)

NoRange == [found |-> FALSE, start |-> 0, end |-> 0, raised |-> FALSE]
TimeRange(start, end) == [found |-> TRUE, start |-> start, end |-> end, raised |-> FALSE]

\* the call ends with an exception instead of a value
RangeRaised == [found |-> FALSE, start |-> 0, end |-> 0, raised |-> TRUE]

\* days from datetime.min (0001-01-01) to the Monday the seconds are counted
\* from, 2024-01-01
DaysSinceMin == 738885

\* every offset gives a datetime
Representable_Always(now, days) == TRUE

\* now - timedelta(days=days) is a datetime: not before datetime.min
\* (OverflowError otherwise)
Representable(now, days) == days <= DaysSinceMin + (now \div Day)

_parse_time_reference(query, now) ==
    LET q == Lower(query) IN
    IF Contains(q, KwToday) THEN TimeRange(Midnight(now), now)
    ELSE IF Contains(q, KwYesterday)
    THEN LET yesterday == now - Day IN
         TimeRange(Midnight(yesterday),
                   Midnight(yesterday) + 23 * Hour + 59 * Minute + 59)
    ELSE IF Contains(q, KwThisWeek)
    THEN TimeRange(Midnight(now - weekday(now) * Day), now)
    ELSE IF Contains(q, KwLastWeek)
    THEN LET start == now - (weekday(now) + 7) * Day IN
         TimeRange(Midnight(start), start + 6 * Day + 23 * Hour + 59 * Minute)
    ELSE IF DaysSearch(q, 1) >= 0
    THEN LET days == DaysSearch(q, 1) IN
         IF Representable(now, days)
         THEN TimeRange(now - days * Day, now)
         ELSE RangeRaised
    ELSE NoRange

----------------------------------------------------------------------------
(* Filter composition (rag_engine._build_where_filter)                     *)

\* isoformat() of a datetime, as the number that orders like the string
DateClause(op, t) ==
    [field |-> "date", op |-> op, sval |-> "", nval |-> t, sub |-> <<>>]

\* {"$and": [...]} as an element of a list of conditions
Group(conds) ==
    [field |-> "$and", op |-> "$and", sval |-> "", nval |-> 0, sub |-> conds]

\* the time conditions are put next to the intent filter as it is, a group
\* included
_build_where_filter_Wraps(query_info, time_range) ==
    LET conditions == query_info.filters
        time_conditions == <<DateClause("$gte", time_range.start),
                             DateClause("$lte", time_range.end)>>
    IN IF ~time_range.found
       THEN IF conditions = <<>> THEN NoFilter
            ELSE [shape |-> IF Len(conditions) = 1 THEN "single" ELSE "and",
                  conds |-> conditions]
       ELSE IF conditions = <<>> THEN [shape |-> "and", conds |-> time_conditions]
       ELSE IF Len(conditions) = 1
            THEN [shape |-> "and", conds |-> conditions \o time_conditions]
            ELSE [shape |-> "and", conds |-> <<Group(conditions)>> \o time_conditions]

_build_where_filter(query_info, time_range) ==
    LET conditions == query_info.filters
        w == IF conditions = <<>> THEN NoFilter
             ELSE IF Len(conditions) = 1
                  THEN [shape |-> "single", conds |-> conditions]
                  ELSE [shape |-> "and", conds |-> conditions]
        time_conditions == <<DateClause("$gte", time_range.start),
                             DateClause("$lte", time_range.end)>>
    IN IF time_range.found
       THEN IF w.shape # "none"
            THEN IF w.shape = "and"
                 THEN [shape |-> "and", conds |-> w.conds \o time_conditions]
                 ELSE [shape |-> "and", conds |-> <<w.conds[1]>> \o time_conditions]
            ELSE [shape |-> "and", conds |-> time_conditions]
       ELSE w

----------------------------------------------------------------------------
(* Semantic search (vector_store.search)                                   *)

\* the stored metadata value, as the text the filter clause names it by
MetaText(rec, field) ==
    CASE field = "direction" -> rec.direction
      [] field = "is_replied" -> IF rec.is_replied THEN "True" ELSE "False"
      [] field = "is_read" -> IF rec.is_read THEN "True" ELSE "False"

RECURSIVE Satisfies(_, _)
Satisfies(rec, cond) ==
    CASE cond.op = "$eq" -> MetaText(rec, cond.field) = cond.sval
      [] cond.op = "$gte" -> rec.date >= cond.nval
      [] cond.op = "$lte" -> rec.date <= cond.nval
      [] cond.op = "$and" -> \A k \in 1..Len(cond.sub) : Satisfies(rec, cond.sub[k])

\* the collection's reading of a where argument
Matches(rec, wh) == \A k \in 1..Len(wh.conds) : Satisfies(rec, wh.conds[k])

\* a formatted hit: the record with relevance = 1 - distance, in percent;
\* the record at position p of the ranking lies at distance p / 10
Hit(rec, p) ==
    [id |-> rec.id, conversation_id |-> rec.conversation_id,
     direction |-> rec.direction, is_replied |-> rec.is_replied,
     is_read |-> rec.is_read, date |-> rec.date, sender |-> rec.sender,
     n |-> rec.n, relevance |-> 100 - 10 * p]

RECURSIVE Ranked(_, _, _, _)
Ranked(coll, rank, wh, p) ==
    IF rank = <<>> THEN <<>>
    ELSE (IF Matches(coll[Head(rank)], wh)
          THEN <<Hit(coll[Head(rank)], p)>> ELSE <<>>)
         \o Ranked(coll, Tail(rank), wh, p + 1)

\* collection.query: the n_results nearest records that satisfy where; rank
\* lists the stored records from nearest to farthest
CollectionQuery(coll, rank, n_results, wh) ==
    LET all == Ranked(coll, rank, wh, 1) IN
    SubSeq(all, 1, IF Len(all) < n_results THEN Len(all) ELSE n_results)

Call(wh, n_results, outcome, hits) ==
    [where |-> wh, n_results |-> n_results, outcome |-> outcome, hits |-> hits]

\* search that returns what the filtered query found
search_NoFallback(coll, rank, n_results, wh, fault1, fault2) ==
    IF fault1
    THEN [raised |-> TRUE, hits |-> <<>>,
          calls |-> <<Call(wh, n_results, "fault", 0)>>]
    ELSE LET first == CollectionQuery(coll, rank, n_results, wh) IN
         [raised |-> FALSE, hits |-> first,
          calls |-> <<Call(wh, n_results, "ok", Len(first))>>]

\* fault1, fault2: the first, the second collection.query call raises
search(coll, rank, n_results, wh, fault1, fault2) ==
    IF fault1
    THEN [raised |-> TRUE, hits |-> <<>>,
          calls |-> <<Call(wh, n_results, "fault", 0)>>]
    ELSE LET first == CollectionQuery(coll, rank, n_results, wh)
             call1 == Call(wh, n_results, "ok", Len(first))
         IN IF first = <<>> /\ wh.shape # "none"
            THEN IF fault2
                 THEN [raised |-> TRUE, hits |-> <<>>,
                       calls |-> <<call1, Call(NoFilter, n_results, "fault", 0)>>]
                 ELSE LET second == CollectionQuery(coll, rank, n_results, NoFilter)
                      IN [raised |-> FALSE, hits |-> second,
                          calls |-> <<call1,
                                      Call(NoFilter, n_results, "ok", Len(second))>>]
            ELSE [raised |-> FALSE, hits |-> first, calls |-> <<call1>>]

----------------------------------------------------------------------------
(* Request handling (rag_engine.query, rag_engine.query_stream, app.chat)  *)

NResults == 5           \* rag_engine.py:142, 193  n_results: int = 5
SourcesCap == 10        \* rag_engine.py:171, 218  emails[:10]

QueryGeneral == <<"V", "o", "d", "a", "f", "o", "n", "e">>
QueryRespond == <<"W", "h", "a", "t", " ", "d", "o", " ", "I", " ", "n", "e", "e", "d", " ", "t", "o", " ", "r", "e", "s", "p", "o", "n", "d", " ", "t", "o">>
QueryUnreadToday == <<"u", "n", "r", "e", "a", "d", " ", "t", "o", "d", "a", "y">>
Queries == {QueryGeneral, QueryRespond, QueryUnreadToday}

\* datetime.now(): a Wednesday, 10:30
Clocks == {16 * Day + 10 * Hour + 30 * Minute}

MailboxStores ==
    UNION {StoresOfLen(k, {"", "c1"}, Directions, BOOLEAN, {16 * Day + 9 * Hour}) :
              k \in 0..MaxMailbox}

\* the orders in which a search can rank the records of the store
Rankings(coll) ==
    {r \in [1..Len(coll) -> 1..Len(coll)] :
        \A i, j \in 1..Len(coll) : r[i] = r[j] => i = j}

FailureReasons == {"timeout", "connection refused"}
Tokens == {"t1", "t2"}

\* sources of every seed hit, with no cap
QuerySources_Uncapped(hits) ==
    [k \in 1..Len(hits) |->
        [sender |-> hits[k].sender, date |-> hits[k].date,
         relevance |-> hits[k].relevance,
         conversation_id |-> hits[k].conversation_id]]

\* query: sources of the first 10 seed hits
QuerySources(hits) ==
    [k \in 1..Len(Take(hits, SourcesCap)) |->
        [sender |-> hits[k].sender, date |-> hits[k].date,
         relevance |-> hits[k].relevance,
         conversation_id |-> hits[k].conversation_id]]

\* query_stream: sources of the first 10 seed hits
StreamSources(hits) ==
    [k \in 1..Len(Take(hits, SourcesCap)) |->
        [sender |-> hits[k].sender, date |-> hits[k].date,
         conversation_id |-> hits[k].conversation_id]]

ThreadsIncluded(working) ==
    Cardinality({working[k].conversation_id : k \in 1..Len(working)} \ {""})

\* the except clause lets the failure through
LlmFailureCaught_Never(reason) == FALSE

\* query, lines 163-167: except Exception around llm.chat
LlmFailureCaught(reason) == TRUE

\* f"Error generating response: {e}"
ErrorAnswer(reason) == [error |-> TRUE, text |-> reason]
Generated == [error |-> FALSE, text |-> "generated"]

ChunkEvent(token) == [type |-> "chunk", content |-> token, sources |-> <<>>]
SourcesEvent(sources) == [type |-> "sources", content |-> "", sources |-> sources]
NoEvent == [type |-> "none", content |-> "", sources |-> <<>>]

\* app.chat generate(): one data frame per event, then the [DONE] frame
DataFrame(event) == [done |-> FALSE, event |-> event]
DoneFrame == [done |-> TRUE, event |-> NoEvent]

\* every line of the backend is passed on as a fragment
HasToken_Always(line) == TRUE

\* chat_stream, lines 252-255: a line is yielded when it carries a token
HasToken(line) == line # ""

RequestInit ==
    /\ store \in MailboxStores
    /\ last = "init"
    /\ ret = <<>>
    /\ email_context = <<>>
    /\ NoRequest

\* query / query_stream, first three statements: intent, range, filter
StartRequest ==
    /\ pc = "idle"
    /\ \E m \in {"query", "query_stream"}, q \in Queries, now \in Clocks :
          LET time_range == _parse_time_reference(q, now) IN
          /\ mode' = m
          /\ user_query' = q
          /\ IF time_range.raised
             THEN where' = NoFilter /\ pc' = "raised"
             ELSE /\ where' = _build_where_filter(_detect_query_type(q), time_range)
                  /\ pc' = "search"
    /\ UNCHANGED <<store, last, ret, email_context, calls, expandVars, streamVars>>
    /\ UNCHANGED <<ingestVars, singletonVars>>

\* vector_store.search; a fault of the collection leaves the request
Search ==
    /\ pc = "search"
    /\ \E rank \in Rankings(store), fault1 \in BOOLEAN, fault2 \in BOOLEAN :
          LET r == search(store, rank, NResults, where, fault1, fault2) IN
          /\ calls' = r.calls
          /\ emails' = r.hits
          /\ pc' = IF r.raised THEN "raised" ELSE "expand"
    /\ UNCHANGED <<store, last, ret, email_context, mode, user_query, where,
                   cursor, seen_ids, seen_conv_ids, expanded, fetches, streamVars>>
    /\ UNCHANGED <<ingestVars, singletonVars>>

\* query, lines 162-191: generation, then the result
Generate ==
    /\ pc = "expanded"
    /\ mode = "query"
    /\ email_context' = expanded
    /\ \/ /\ llm_error' = ""
          /\ pc' = "returned"
          /\ last' = "query"
          /\ ret' = [answer |-> Generated,
                     sources |-> QuerySources(emails),
                     query_type |-> _detect_query_type(user_query).type,
                     emails_found |-> Len(emails),
                     threads_included |-> ThreadsIncluded(expanded)]
       \/ \E reason \in FailureReasons :
             /\ llm_error' = reason
             /\ IF LlmFailureCaught(reason)
                THEN /\ pc' = "returned"
                     /\ last' = "query"
                     /\ ret' = [answer |-> ErrorAnswer(reason),
                                sources |-> QuerySources(emails),
                                query_type |-> _detect_query_type(user_query).type,
                                emails_found |-> Len(emails),
                                threads_included |-> ThreadsIncluded(expanded)]
                ELSE /\ pc' = "raised"
                     /\ UNCHANGED <<last, ret>>
    /\ UNCHANGED <<store, mode, user_query, where, calls, expandVars,
                   events, sse, produced, conn>>
    /\ UNCHANGED <<ingestVars, singletonVars>>

\* chat_stream up to its first line: context, request, raise_for_status
StreamOpen ==
    /\ pc = "expanded"
    /\ mode = "query_stream"
    /\ email_context' = expanded
    /\ \/ /\ conn' = "open"
          /\ pc' = "streaming"
          /\ UNCHANGED llm_error
       \/ \E reason \in FailureReasons :
             /\ llm_error' = reason
             /\ conn' = "closed"
             /\ pc' = "raised"
    /\ UNCHANGED <<store, last, ret, mode, user_query, where, calls, expandVars,
                   events, sse, produced>>
    /\ UNCHANGED <<ingestVars, singletonVars>>

\* the backend sends a line; a line with a token becomes a chunk event and
\* one frame of the response
StreamLine ==
    /\ pc = "streaming"
    /\ Len(produced) < MaxLines
    /\ \E line \in Tokens \cup {""} :
          /\ produced' = Append(produced, line)
          /\ IF HasToken(line)
             THEN /\ events' = Append(events, ChunkEvent(line))
                  /\ sse' = Append(sse, DataFrame(ChunkEvent(line)))
             ELSE UNCHANGED <<events, sse>>
    /\ UNCHANGED <<store, last, ret, email_context, pc, mode, user_query, where,
                   calls, expandVars, conn, llm_error>>
    /\ UNCHANGED <<ingestVars, singletonVars>>

\* the connection breaks or a line is no JSON: the exception leaves
\* chat_stream, query_stream and generate()
StreamFault ==
    /\ pc = "streaming"
    /\ \E reason \in FailureReasons : llm_error' = reason
    /\ conn' = "closed"
    /\ pc' = "raised"
    /\ UNCHANGED <<store, last, ret, email_context, mode, user_query, where,
                   calls, expandVars, events, sse, produced>>
    /\ UNCHANGED <<ingestVars, singletonVars>>

\* the backend ends the stream: query_stream yields the sources event
StreamSourcesEvent ==
    /\ pc = "streaming"
    /\ conn' = "closed"
    /\ events' = Append(events, SourcesEvent(StreamSources(emails)))
    /\ sse' = Append(sse, DataFrame(SourcesEvent(StreamSources(emails))))
    /\ pc' = "sources"
    /\ UNCHANGED <<store, last, ret, email_context, mode, user_query, where,
                   calls, expandVars, produced, llm_error>>
    /\ UNCHANGED <<ingestVars, singletonVars>>

\* query_stream is exhausted: generate() emits [DONE]
StreamDone ==
    /\ pc = "sources"
    /\ sse' = Append(sse, DoneFrame)
    /\ pc' = "done"
    /\ last' = "query_stream"
    /\ UNCHANGED <<store, ret, email_context, mode, user_query, where,
                   calls, expandVars, events, produced, conn, llm_error>>
    /\ UNCHANGED <<ingestVars, singletonVars>>

\* the generators are dropped and the backend connection stays open
StreamCancel_LeavesConnection ==
    /\ \/ pc = "streaming" /\ events # <<>>
       \/ pc = "sources"
    /\ pc' = "cancelled"
    /\ UNCHANGED <<store, last, ret, email_context, mode, user_query, where,
                   calls, expandVars, events, sse, produced, conn, llm_error>>
    /\ UNCHANGED <<ingestVars, singletonVars>>

\* the client goes away while a frame is handed over: the generators are
\* closed at their yield
StreamCancel ==
    /\ \/ pc = "streaming" /\ events # <<>>
       \/ pc = "sources"
    /\ conn' = "closed"
    /\ pc' = "cancelled"
    /\ UNCHANGED <<store, last, ret, email_context, mode, user_query, where,
                   calls, expandVars, events, sse, produced, llm_error>>
    /\ UNCHANGED <<ingestVars, singletonVars>>

Next ==
    \/ StartRequest
    \/ Search
    \/ ExpandStep
    \/ ExpandReturn
    \/ Generate
    \/ StreamOpen
    \/ StreamLine
    \/ StreamFault
    \/ StreamSourcesEvent
    \/ StreamDone
    \/ StreamCancel

Spec == RequestInit /\ [][Next]_vars

----------------------------------------------------------------------------
(* Properties of request handling                                          *)

AllCallsOk == \A k \in 1..Len(calls) : calls[k].outcome = "ok"

\* C6: the search is repeated, once and with no filter, exactly when a filter
\* was applied and the filtered query returned no hit; whenever the search
\* returns and the store holds a record, the hit list is not empty.
C6_FallbackRule ==
    calls # <<>> =>
        /\ Len(calls) <= 2
        /\ calls[1].where = where
        /\ calls[1].n_results >= 1
        /\ Len(calls) = 2 <=> /\ where.shape # "none"
                              /\ calls[1].outcome = "ok"
                              /\ calls[1].hits = 0
        /\ Len(calls) = 2 => /\ calls[2].where = NoFilter
                             /\ calls[2].n_results = calls[1].n_results
        /\ (AllCallsOk /\ store # <<>>) => emails # <<>>

\* Scenario 3: the filter matched nothing, the store holds records, and the
\* repeated search returned hits
C6_Witness ==
    /\ Len(calls) = 2
    /\ AllCallsOk
    /\ calls[1].hits = 0
    /\ where.shape = "and"
    /\ Len(emails) = 2

\* C7: a fault of the search call is caught by the orchestrator: the search
\* is repeated once with no filter, and no fault of the store leaves the
\* request.
C7_StoreFaultCaught ==
    (calls # <<>> /\ ~AllCallsOk) =>
        /\ calls[1].outcome = "fault" =>
              Len(calls) = 2 /\ calls[2].where = NoFilter
        /\ pc # "raised"

ExpectedType(q) ==
    CASE q = QueryGeneral -> "general"
      [] q = QueryRespond -> "action_needed"
      [] q = QueryUnreadToday -> "unread"

\* C8: when the generation backend fails during query, query returns: the
\* answer names the failure, and sources, query_type, emails_found and
\* threads_included are those of the search made before.
C8_BackendFailureBecomesAnswer ==
    (mode = "query" /\ llm_error # "") =>
        /\ pc = "returned"
        /\ ret.answer.error
        /\ ret.answer.text = llm_error
        /\ Len(ret.sources) = (IF Len(emails) < 10 THEN Len(emails) ELSE 10)
        /\ \A k \in 1..Len(ret.sources) :
              /\ ret.sources[k].sender = emails[k].sender
              /\ ret.sources[k].date = emails[k].date
              /\ ret.sources[k].relevance = emails[k].relevance
              /\ ret.sources[k].conversation_id = emails[k].conversation_id
        /\ ret.query_type = ExpectedType(user_query)
        /\ ret.emails_found = Len(emails)
        /\ ret.threads_included
             = Cardinality({c \in ConvIds \ {""} :
                              \E k \in 1..Len(expanded) : expanded[k].conversation_id = c})

\* the backend failed after a search whose hit was expanded to its thread
C8_Witness ==
    /\ mode = "query"
    /\ llm_error # ""
    /\ pc = "returned"
    /\ Len(emails) = 2
    /\ ret.threads_included = 1

\* C9: when the generation backend fails while query_stream streams, the
\* fragment sequence ends and the sources event is still emitted.
C9_SourcesAfterStreamFault ==
    (mode = "query_stream" /\ llm_error # "") =>
        /\ events # <<>>
        /\ events[Len(events)].type = "sources"

ChunkContents ==
    LET chunks == SelectSeq(events, LAMBDA e : e.type = "chunk") IN
    [k \in 1..Len(chunks) |-> chunks[k].content]

\* C10: the events of query_stream are the backend's fragments as chunk
\* events, in the backend's order, then one sources event, which is the last
\* event; the response frames mirror the events, and [DONE] is emitted only
\* after the sources event; a run that is neither cancelled nor hit by a
\* fault ends with the sources event and [DONE].
C10_TwoPhaseStream ==
    /\ \A k \in 1..Len(events) :
          /\ events[k].type \in {"chunk", "sources"}
          /\ events[k].type = "sources" => k = Len(events)
    /\ ChunkContents = SelectSeq(produced, LAMBDA line : line # "")
    /\ Len(sse) >= Len(events)
    /\ \A k \in 1..Len(events) : ~sse[k].done /\ sse[k].event = events[k]
    /\ \A k \in (Len(events) + 1)..Len(sse) :
          /\ sse[k].done
          /\ k = Len(events) + 1
          /\ events # <<>>
          /\ events[Len(events)].type = "sources"
    /\ pc = "done" =>
          /\ Len(sse) = Len(events) + 1
          /\ events # <<>>
          /\ events[Len(events)].type = "sources"

\* a stream of one fragment and one line without token has ended
C10_Witness ==
    /\ pc = "done"
    /\ Len(events) = 2
    /\ Len(produced) = 2
    /\ events[1].type = "chunk"
    /\ events[2].type = "sources"
    /\ events[2].sources # <<>>
    /\ sse[3].done

LastEvent == events[Len(events)]

\* C11: the sources event of query_stream carries the citation list query
\* returns for the same seed hits: the same entries in the same order, each
\* with the sender, the date, the conversation and the relevance score.
C11_StreamSourcesAsQuery ==
    (events # <<>> /\ LastEvent.type = "sources") =>
        LET streamed == LastEvent.sources
            blocking == QuerySources(emails)
        IN /\ Len(streamed) = Len(blocking)
           /\ \A k \in 1..Len(streamed) :
                 /\ streamed[k].sender = blocking[k].sender
                 /\ streamed[k].date = blocking[k].date
                 /\ streamed[k].conversation_id = blocking[k].conversation_id
                 /\ "relevance" \in DOMAIN streamed[k]
                 /\ streamed[k].relevance = blocking[k].relevance

----------------------------------------------------------------------------
(* query with n_results beyond the citation cap: query(user_query, n)      *)

\* stores of k records; with threaded, the records of even id form a thread
CiteStores ==
    {[i \in 1..k |->
        [id |-> i,
         conversation_id |-> IF threaded /\ i % 2 = 0 THEN "c1" ELSE "",
         direction |-> "received", is_replied |-> FALSE, is_read |-> TRUE,
         date |-> 16 * Day, sender |-> "a", n |-> 1]] :
        k \in 0..MaxArchive, threaded \in BOOLEAN}

CiteNResults == {2, SourcesCap + 1}

\* the ranking that lists the records in the order they are stored
NearestFirst(coll) == [i \in 1..Len(coll) |-> i]

\* query has classified a general query and the search has returned
CiteInit ==
    /\ store \in CiteStores
    /\ \E n_results \in CiteNResults :
          LET r == search(store, NearestFirst(store), n_results, NoFilter,
                          FALSE, FALSE)
          IN /\ emails = r.hits
             /\ calls = r.calls
    /\ pc = "expand"
    /\ mode = "query"
    /\ user_query = QueryGeneral
    /\ where = NoFilter
    /\ last = "init"
    /\ ret = <<>>
    /\ email_context = <<>>
    /\ cursor = 1
    /\ seen_ids = {}
    /\ seen_conv_ids = {}
    /\ expanded = <<>>
    /\ fetches = <<>>
    /\ events = <<>>
    /\ sse = <<>>
    /\ produced = <<>>
    /\ conn = "none"
    /\ llm_error = ""
    /\ NoIngestion

CiteNext == ExpandStep \/ ExpandReturn \/ Generate

SpecCite == CiteInit /\ [][CiteNext]_vars

\* C12: the sources of query are built from the seed hits, one entry per hit
\* in the order of the hits, at most 10 of them; a record the thread
\* expansion added is not among them, and emails_found counts the seed hits.
C12_SourcesFromSeedsOnly ==
    pc = "returned" =>
        /\ Len(ret.sources) = (IF Len(emails) < 10 THEN Len(emails) ELSE 10)
        /\ \A k \in 1..Len(ret.sources) :
              /\ ret.sources[k].relevance = emails[k].relevance
              /\ ret.sources[k].sender = emails[k].sender
              /\ ret.sources[k].date = emails[k].date
              /\ ret.sources[k].conversation_id = emails[k].conversation_id
        /\ ret.emails_found = Len(emails)
        /\ Len(ret.sources) <= Len(emails)

\* eleven seed hits, ten of them cited, and a twelfth record of the thread in
\* the working set only
C12_Witness ==
    /\ pc = "returned"
    /\ Len(emails) = 11
    /\ Len(ret.sources) = 10
    /\ Len(expanded) = 12
    /\ ret.emails_found = 11

----------------------------------------------------------------------------
(* Ingestion: add_emails calls of two threads, statement by statement      *)

\* the email with unique_id id; the id is derived from the content
IngestEmail(id) ==
    [id |-> id, conversation_id |-> "", direction |-> "received",
     is_replied |-> FALSE, is_read |-> TRUE, date |-> 1, sender |-> "a", n |-> 1]

IngestBatches ==
    UNION {[1..k -> {IngestEmail(id) : id \in 1..MaxIds}] : k \in 1..MaxBatch}

IngestInit ==
    /\ store = <<>>
    /\ last = "init"
    /\ ret = <<>>
    /\ email_context = <<>>
    /\ NoRequest

\* add_emails is called with a batch of at most batch_size emails
IngestCall ==
    /\ \E t \in Threads, batch \in IngestBatches :
          /\ workers[t].pc = "idle"
          /\ workers[t].done < MaxCalls
          /\ workers' = [workers EXCEPT ![t] =
                 [pc |-> "check", batch |-> batch, i |-> 1, ids |-> <<>>,
                  added |-> 0, inserted |-> 0, done |-> workers[t].done + 1]]
    /\ UNCHANGED <<store, last, ret, email_context, reqVars, handed, passes, args, singletonVars>>

\* lines 51-61: one iteration of the loop over the batch; after the last
\* one, line 63: nothing to add, or on to collection.add
IngestCheck ==
    /\ \E t \in Threads :
          LET w == workers[t] IN
          /\ w.pc = "check"
          /\ LET email == w.batch[w.i]
                 ids == IF email.id \in StoredIds(store)
                        THEN w.ids ELSE Append(w.ids, email)
                 next == IF w.i < Len(w.batch) THEN "check"
                         ELSE IF ids = <<>> THEN "returned" ELSE "add"
             IN workers' = [workers EXCEPT ![t] =
                    [w EXCEPT !.i = w.i + 1, !.ids = ids, !.pc = next]]
    /\ UNCHANGED <<store, last, ret, email_context, reqVars, handed, passes, args, singletonVars>>

\* lines 66-74: collection.add(ids=ids, ...).  The collection rejects a list
\* that names an id twice; an id it already holds it rejects or skips
\* without a word, depending on its version (lenient)
IngestAdd ==
    /\ \E t \in Threads, lenient \in BOOLEAN :
          LET w == workers[t]
              ids == SeqIds(w.ids)
              fresh == SelectSeq(w.ids, LAMBDA e : e.id \notin StoredIds(store))
              outcome == IF HasDuplicates(ids) THEN "duplicate ids"
                         ELSE IF Len(fresh) < Len(ids) /\ ~lenient
                              THEN "id exists" ELSE "ok"
          IN /\ w.pc = "add"
             /\ handed' = Append(handed, [thread |-> t, ids |-> ids,
                                          stored |-> StoredIds(store),
                                          outcome |-> outcome])
             /\ IF outcome = "ok"
                THEN /\ store' = store \o fresh
                     /\ workers' = [workers EXCEPT ![t] =
                            [w EXCEPT !.pc = "returned",
                                      !.added = w.added + Len(w.ids),
                                      !.inserted = Len(fresh)]]
                ELSE /\ store' = store
                     /\ workers' = [workers EXCEPT ![t] = [w EXCEPT !.pc = "raised"]]
    /\ UNCHANGED <<last, ret, email_context, reqVars, passes, args, singletonVars>>

\* line 76: return added; or the exception of collection.add leaves the call
IngestReturn ==
    /\ \E t \in Threads :
          LET w == workers[t] IN
          /\ w.pc \in {"returned", "raised"}
          /\ last' = "add_emails"
          /\ ret' = [added |-> w.added, inserted |-> w.inserted,
                     raised |-> w.pc = "raised"]
          /\ workers' = [workers EXCEPT ![t] =
                 [w EXCEPT !.pc = "idle", !.batch = <<>>, !.i = 1, !.ids = <<>>,
                           !.added = 0, !.inserted = 0]]
    /\ UNCHANGED <<store, email_context, reqVars, handed, passes, args, singletonVars>>

IngestNext == IngestCall \/ IngestCheck \/ IngestAdd \/ IngestReturn

SpecIngest == IngestInit /\ [][IngestNext]_vars

\* C14: whatever add_emails calls are made and however they interleave, no
\* id is handed to collection.add that the collection already holds, none is
\* handed twice in one list, the store holds no id twice, and a call returns
\* the number of records it stored.
C14_InsertIfAbsent ==
    /\ \A k \in 1..Len(handed) :
          /\ ~HasDuplicates(handed[k].ids)
          /\ \A j \in 1..Len(handed[k].ids) :
                handed[k].ids[j] \notin handed[k].stored
    /\ NoIdTwice(store)
    /\ \A t \in Threads :
          workers[t].pc = "returned" => workers[t].added = workers[t].inserted

----------------------------------------------------------------------------
(* Meeting preparation (prepare_for_meeting, prepare_for_meeting_stream)   *)

SubjectN == 10          \* rag_engine.py:338, 412  n_results of the subject search
AttendeeN == 5          \* rag_engine.py:344, 415  n_results of an attendee search
SummaryN == 5           \* rag_engine.py:351, 417  n_results of the summary search
AttendeeCap == 3        \* rag_engine.py:342, 413  attendees[:3]

PrepModes == {"prepare_for_meeting", "prepare_for_meeting_stream"}

Meetings ==
    [subject : {"", "Vodafone"},
     all_attendees : UNION {[1..k -> {"", "ann"}] : k \in 0..MaxAttendees}]

\* stores of k records; with threaded, the records of odd id form a thread
PrepStore(k, threaded) ==
    [i \in 1..k |->
        [id |-> i,
         conversation_id |-> IF threaded /\ i % 2 = 1 THEN "c1" ELSE "",
         direction |-> "received", is_replied |-> FALSE, is_read |-> TRUE,
         date |-> 1, sender |-> "a", n |-> 1]]

PrepStores == {PrepStore(k, threaded) : k \in 0..MaxPrepStore, threaded \in BOOLEAN}

\* the rankings the searches of a preparation come back with: nearest first
\* in storage order, or in the reverse order
FarthestFirst(coll) == [i \in 1..Len(coll) |-> Len(coll) + 1 - i]
PrepRankings(coll) == {NearestFirst(coll), FarthestFirst(coll)}

\* the searches a meeting leads to, in the order they are made
SearchPlan(meeting) ==
    LET attendees == Take(meeting.all_attendees, AttendeeCap)
        named == SelectSeq(attendees, LAMBDA a : a # "")
    IN (IF meeting.subject # ""
        THEN <<[query |-> "subject", n_results |-> SubjectN]>> ELSE <<>>)
       \o [k \in 1..Len(named) |-> [query |-> "attendee", n_results |-> AttendeeN]]
       \o (IF meeting.subject # ""
           THEN <<[query |-> "summary", n_results |-> SummaryN]>> ELSE <<>>)

\* the merged list takes every result, seen before or not
add_results_NoDedup(all_emails, results) == all_emails \o results

\* add_results: the results whose id is not in seen_ids are appended
RECURSIVE add_results(_, _)
add_results(all_emails, results) ==
    IF results = <<>> THEN all_emails
    ELSE add_results(IF Head(results).id \in IdsOf(all_emails)
                     THEN all_emails ELSE Append(all_emails, Head(results)),
                     Tail(results))

MergeStep(all_emails, results) == add_results(all_emails, results)

RECURSIVE MergePasses(_, _)
MergePasses(all_emails, log) ==
    IF log = <<>> THEN all_emails
    ELSE MergePasses(MergeStep(all_emails, Head(log).hits), Tail(log))

PrepInit ==
    /\ store \in PrepStores
    /\ last = "init"
    /\ ret = <<>>
    /\ email_context = <<>>
    /\ NoRequest

\* the search passes of a preparation and the merge of their results; a
\* fault of the collection leaves the preparation
PrepSearches ==
    /\ pc = "idle"
    /\ \E m \in PrepModes, meeting \in Meetings, fault \in BOOLEAN :
          LET plan == SearchPlan(meeting) IN
          \E rk \in [1..Len(plan) -> PrepRankings(store)] :
             LET log == [k \in 1..Len(plan) |->
                            [query |-> plan[k].query,
                             n_results |-> plan[k].n_results,
                             hits |-> search(store, rk[k], plan[k].n_results,
                                             NoFilter, FALSE, FALSE).hits]]
             IN /\ mode' = m
                /\ IF fault /\ plan # <<>>
                   THEN /\ pc' = "raised"
                        /\ UNCHANGED <<passes, emails>>
                   ELSE /\ pc' = "expand"
                        /\ passes' = log
                        /\ emails' = MergePasses(<<>>, log)
    /\ UNCHANGED <<store, last, ret, email_context, user_query, where, calls,
                   cursor, seen_ids, seen_conv_ids, expanded, fetches,
                   streamVars, workers, handed, args, singletonVars>>

\* the brief is generated from the working set and the result is returned;
\* prepare_for_meeting catches a failure of the backend, the streamed
\* preparation does not
PrepReturn ==
    /\ pc = "expanded"
    /\ mode \in PrepModes
    /\ email_context' = expanded
    /\ \/ /\ pc' = "returned"
          /\ UNCHANGED llm_error
       \/ \E reason \in FailureReasons :
             /\ llm_error' = reason
             /\ pc' = IF mode = "prepare_for_meeting" THEN "returned" ELSE "raised"
    /\ IF pc' = "returned"
       THEN /\ last' = mode
            /\ ret' = [emails_found |-> Len(emails),
                       threads_found |-> ThreadsIncluded(expanded),
                       sources |-> Len(Take(emails, SourcesCap))]
       ELSE UNCHANGED <<last, ret>>
    /\ UNCHANGED <<store, mode, user_query, where, calls, expandVars,
                   events, sse, produced, conn, ingestVars, singletonVars>>

PrepNext == PrepSearches \/ ExpandStep \/ ExpandReturn \/ PrepReturn

SpecPrep == PrepInit /\ [][PrepNext]_vars

RECURSIVE AllHits(_)
AllHits(log) == IF log = <<>> THEN <<>> ELSE Head(log).hits \o AllHits(Tail(log))

FirstIndex(recs, id) == CHOOSE k \in 1..Len(recs) :
    recs[k].id = id /\ \A j \in 1..(k - 1) : recs[j].id # id

\* C15: after the search passes of a meeting preparation (subject, at most
\* three attendees, summary) the merged list holds every id the passes
\* returned exactly once, in the order the ids were first seen, and the
\* working set expanded from it holds no id twice.
C15_MeetingPrepDedup ==
    (mode \in PrepModes /\ pc \in {"expand", "expanded", "returned"}) =>
        LET all == AllHits(passes) IN
        /\ NoIdTwice(emails)
        /\ IdsOf(emails) = IdsOf(all)
        /\ \A i \in 1..Len(emails) : emails[i] = all[FirstIndex(all, emails[i].id)]
        /\ \A i, j \in 1..Len(emails) :
              i < j => FirstIndex(all, emails[i].id) < FirstIndex(all, emails[j].id)
        /\ Len(SelectSeq(passes, LAMBDA q : q.query = "attendee")) <= 3
        /\ Len(passes) <= 5
        /\ NoIdTwice(expanded)
        /\ pc # "expand" => IdsOf(emails) \subseteq IdsOf(expanded)

\* five passes over eleven records: the subject search returned ten of them,
\* a later pass returned the eleventh and records already seen
C15_Witness ==
    /\ mode \in PrepModes
    /\ pc = "returned"
    /\ Len(passes) = 5
    /\ Len(passes[1].hits) = 10
    /\ Len(emails) = 11
    /\ emails[11].id = 11
    /\ Len(AllHits(passes)) = 30

----------------------------------------------------------------------------
(* _detect_query_type on query texts made of phrases                       *)

\* phrases of a query, with the number of the rule a phrase falls under
\* (1 action_needed, 2 sent_followup, 3 unread, 0 none)
Vocabulary ==
    <<[text |-> <<"W", "h", "a", "t", " ", "d", "o", " ", "I", " ", "n", "e", "e", "d", " ", "t", "o", " ", "r", "e", "s", "p", "o", "n", "d", " ", "t", "o">>,
       rule |-> 1],
      [text |-> <<"T", "O", "D", "O">>,
       rule |-> 1],
      [text |-> <<"t", "r", "a", "n", "s", "a", "c", "t", "i", "o", "n">>,
       rule |-> 1],
      [text |-> <<"w", "a", "i", "t", "i", "n", "g", " ", "f", "o", "r", " ", "r", "e", "p", "l", "y">>,
       rule |-> 1],
      [text |-> <<"I", " ", "s", "e", "n", "t">>,
       rule |-> 2],
      [text |-> <<"F", "o", "l", "l", "o", "w", " ", "u", "p">>,
       rule |-> 2],
      [text |-> <<"m", "y", " ", "s", "e", "n", "t">>,
       rule |-> 2],
      [text |-> <<"h", "a", "v", "e", "n", "'", "t", " ", "h", "e", "a", "r", "d">>,
       rule |-> 2],
      [text |-> <<"N", "o", " ", "r", "e", "s", "p", "o", "n", "s", "e">>,
       rule |-> 2],
      [text |-> <<"u", "n", "r", "e", "a", "d">>,
       rule |-> 3],
      [text |-> <<"h", "e", "l", "l", "o">>,
       rule |-> 0]>>

\* the phrases joined with commas
RECURSIVE JoinPhrases(_)
JoinPhrases(ws) ==
    IF ws = <<>> THEN <<>>
    ELSE IF Len(ws) = 1 THEN Vocabulary[ws[1]].text
    ELSE Vocabulary[ws[1]].text \o <<",">> \o JoinPhrases(Tail(ws))

DetectQueries ==
    {JoinPhrases(ws) : ws \in UNION {[1..k -> 1..Len(Vocabulary)] : k \in 0..MaxWords}}

DetectInit ==
    /\ store = <<>>
    /\ last = "init"
    /\ ret = <<>>
    /\ email_context = <<>>
    /\ pc = "idle"
    /\ mode = "none"
    /\ user_query \in DetectQueries
    /\ where = NoFilter
    /\ calls = <<>>
    /\ emails = <<>>
    /\ cursor = 1
    /\ seen_ids = {}
    /\ seen_conv_ids = {}
    /\ expanded = <<>>
    /\ fetches = <<>>
    /\ events = <<>>
    /\ sse = <<>>
    /\ produced = <<>>
    /\ conn = "none"
    /\ llm_error = ""
    /\ NoIngestion

DetectQueryType ==
    /\ last = "init"
    /\ ret' = _detect_query_type(user_query)
    /\ last' = "_detect_query_type"
    /\ UNCHANGED <<store, email_context, reqVars, ingestVars, singletonVars>>

DetectNext == DetectQueryType

SpecDetect == DetectInit /\ [][DetectNext]_vars

\* the phrases of a text, split at the commas
RECURSIVE PhrasesOf(_, _)
PhrasesOf(q, word) ==
    IF q = <<>> THEN <<word>>
    ELSE IF Head(q) = "," THEN <<word>> \o PhrasesOf(Tail(q), <<>>)
    ELSE PhrasesOf(Tail(q), Append(word, Head(q)))

RuleOfPhrase(word) ==
    IF \E v \in 1..Len(Vocabulary) : Vocabulary[v].text = word
    THEN Vocabulary[CHOOSE v \in 1..Len(Vocabulary) : Vocabulary[v].text = word].rule
    ELSE 0

\* the lowest-numbered rule a phrase of the text falls under; 0 when none does
FirstRule(q) ==
    LET rules == {RuleOfPhrase(PhrasesOf(q, <<>>)[k]) :
                     k \in 1..Len(PhrasesOf(q, <<>>))} \ {0}
    IN IF rules = {} THEN 0 ELSE CHOOSE r \in rules : \A o \in rules : r <= o

FilterOf(detected) ==
    {<<detected.filters[k].field, detected.filters[k].sval>> :
        k \in 1..Len(detected.filters)}

\* C16: _detect_query_type returns, for every text, the intent of the
\* lowest-numbered rule one of whose keywords occurs in the text, whatever
\* the case of its letters, with the filter of that rule, and general with
\* no filter when no keyword occurs.
C16_FirstMatchWins ==
    last = "_detect_query_type" =>
        LET rule == FirstRule(user_query) IN
        /\ rule = 1 => /\ ret.type = "action_needed"
                       /\ FilterOf(ret) = {<<"direction", "received">>,
                                            <<"is_replied", "False">>}
        /\ rule = 2 => /\ ret.type = "sent_followup"
                       /\ FilterOf(ret) = {<<"direction", "sent">>,
                                            <<"is_replied", "False">>}
        /\ rule = 3 => /\ ret.type = "unread"
                       /\ FilterOf(ret) = {<<"is_read", "False">>,
                                            <<"direction", "received">>}
        /\ rule = 0 => /\ ret.type = "general"
                       /\ ret.filters = <<>>
        /\ Len(ret.filters) = Cardinality(FilterOf(ret))
        /\ user_query = QueryRespond => ret.type = "action_needed"

\* a text with a phrase of rule 3, then one of rule 2, then one of rule 1 in
\* capitals has been classified
C16_Witness ==
    /\ last = "_detect_query_type"
    /\ user_query = JoinPhrases(<<7, 5, 2>>)
    /\ ret.type = "action_needed"

----------------------------------------------------------------------------
(* _build_where_filter on intent filters and time ranges                   *)

IntentClauses ==
    {Clause("direction", "received"), Clause("direction", "sent"),
     Clause("is_replied", "False"), Clause("is_read", "False")}

\* the items of a dict: no key twice
IntentFilters ==
    {f \in UNION {[1..k -> IntentClauses] : k \in 0..MaxClauses} :
        \A i, j \in 1..Len(f) : f[i].field = f[j].field => i = j}

TimeRanges ==
    {NoRange} \cup {TimeRange(a, b) : a \in 1..3, b \in 1..3}

FilterInit ==
    /\ store = <<>>
    /\ last = "init"
    /\ ret = <<>>
    /\ email_context = <<>>
    /\ pc = "idle"
    /\ mode = "none"
    /\ user_query = <<>>
    /\ where = NoFilter
    /\ calls = <<>>
    /\ emails = <<>>
    /\ cursor = 1
    /\ seen_ids = {}
    /\ seen_conv_ids = {}
    /\ expanded = <<>>
    /\ fetches = <<>>
    /\ events = <<>>
    /\ sse = <<>>
    /\ produced = <<>>
    /\ conn = "none"
    /\ llm_error = ""
    /\ workers = [t \in Threads |-> [pc |-> "idle", batch |-> <<>>, i |-> 1,
                                     ids |-> <<>>, added |-> 0,
                                     inserted |-> 0, done |-> 0]]
    /\ handed = <<>>
    /\ passes = <<>>
    /\ NoCallers
    /\ args \in [query_info : [type : {"any"}, filters : IntentFilters],
                 time_range : TimeRanges]

BuildWhereFilter ==
    /\ last = "init"
    /\ where' = _build_where_filter(args.query_info, args.time_range)
    /\ last' = "_build_where_filter"
    /\ UNCHANGED <<store, ret, email_context, pc, mode, user_query, calls,
                   expandVars, streamVars, ingestVars, singletonVars>>

FilterNext == BuildWhereFilter

SpecFilter == FilterInit /\ [][FilterNext]_vars

ProbeRecords ==
    [direction : Directions, is_replied : BOOLEAN, is_read : BOOLEAN, date : 0..4]

\* the record has the value an intent clause asks for
HasValue(rec, clause) ==
    \/ clause.field = "direction" /\ rec.direction = clause.sval
    \/ clause.field = "is_replied" /\ rec.is_replied = (clause.sval = "True")
    \/ clause.field = "is_read" /\ rec.is_read = (clause.sval = "True")

\* C17: a record satisfies the expression _build_where_filter builds exactly
\* when it satisfies every clause of the intent filter and, with a time
\* range, has its date in the range; no $and group lies inside the
\* expression's $and; one source alone is used as it is; with no source the
\* expression is the filter that restricts nothing.
C17_ComposedFilter ==
    last = "_build_where_filter" =>
        LET f == args.query_info.filters
            tr == args.time_range
        IN /\ \A rec \in ProbeRecords :
                 Matches(rec, where)
                   <=> /\ \A k \in 1..Len(f) : HasValue(rec, f[k])
                       /\ tr.found => (tr.start <= rec.date /\ rec.date <= tr.end)
           /\ \A k \in 1..Len(where.conds) : where.conds[k].op # "$and"
           /\ (f # <<>> /\ tr.found) =>
                 where.shape = "and" /\ Len(where.conds) = Len(f) + 2
           /\ (f # <<>> /\ ~tr.found) =>
                 /\ where.conds = f
                 /\ where.shape = (IF Len(f) = 1 THEN "single" ELSE "and")
           /\ (f = <<>> /\ tr.found) =>
                 where.shape = "and" /\ Len(where.conds) = 2
           /\ (f = <<>> /\ ~tr.found) => where = NoFilter

\* an intent filter of two clauses has been composed with a time range
C17_Witness ==
    /\ last = "_build_where_filter"
    /\ Len(args.query_info.filters) = 2
    /\ args.time_range.found
    /\ args.time_range.start < args.time_range.end
    /\ Len(where.conds) = 4

----------------------------------------------------------------------------
(* _parse_time_reference on query texts and clocks                         *)

LastWeekQueries ==
    {<<"l", "a", "s", "t", " ", "w", "e", "e", "k">>,
     <<"E", "m", "a", "i", "l", "s", " ", "f", "r", "o", "m", " ", "L", "A", "S", "T", " ", "W", "E", "E", "K">>}

TimeQueries ==
    LastWeekQueries \cup
    {<<"t", "o", "d", "a", "y">>,
     <<"Y", "e", "s", "t", "e", "r", "d", "a", "y">>,
     <<"t", "h", "i", "s", " ", "w", "e", "e", "k">>,
     <<"l", "a", "s", "t", " ", "3", " ", "d", "a", "y", "s">>,
     <<"p", "a", "s", "t", " ", "3", "0", " ", "d", "a", "y">>,
     <<"m", "a", "i", "l", " ", "o", "f", " ", "t", "h", "e", " ", "l", "a", "s", "t", " ", " ", "7", " ", " ", "d", "a", "y", "s">>,
     <<"l", "a", "s", "t", " ", "9", "9", "9", "9", "9", "9", " ", "d", "a", "y", "s">>,
     <<"l", "a", "s", "t", " ", "d", "a", "y", "s">>,
     <<"l", "a", "s", "t", " ", "1", "2", "x", " ", "d", "a", "y", "s">>,
     <<"h", "e", "l", "l", "o">>,
     <<"l", "a", "s", "t", " ", "w", "e", "e", "k", " ", "t", "o", "d", "a", "y">>,
     <<"L", "a", "s", "t", " ", "0", " ", "d", "a", "y", "s">>,
     <<"p", "a", "s", "t", " ", "0", "0", "1", " ", "d", "a", "y", "s", "!">>}

\* datetime.now(): every day of the weeks from 2024-01-15 on, at several
\* times of the day
TimeClocks ==
    {(14 + d) * Day + t :
        d \in 0..(7 * MaxWeeks - 1),
        t \in {0, 30, 10 * Hour + 30 * Minute, 23 * Hour + 59 * Minute + 30}}

TimeInit ==
    /\ store = <<>>
    /\ last = "init"
    /\ ret = <<>>
    /\ email_context = <<>>
    /\ pc = "idle"
    /\ mode = "none"
    /\ user_query \in TimeQueries
    /\ where = NoFilter
    /\ calls = <<>>
    /\ emails = <<>>
    /\ cursor = 1
    /\ seen_ids = {}
    /\ seen_conv_ids = {}
    /\ expanded = <<>>
    /\ fetches = <<>>
    /\ events = <<>>
    /\ sse = <<>>
    /\ produced = <<>>
    /\ conn = "none"
    /\ llm_error = ""
    /\ workers = [t \in Threads |-> [pc |-> "idle", batch |-> <<>>, i |-> 1,
                                     ids |-> <<>>, added |-> 0,
                                     inserted |-> 0, done |-> 0]]
    /\ handed = <<>>
    /\ passes = <<>>
    /\ NoCallers
    /\ args \in [now : TimeClocks]

ParseTimeReference ==
    /\ last = "init"
    /\ ret' = _parse_time_reference(user_query, args.now)
    /\ last' = "_parse_time_reference"
    /\ UNCHANGED <<store, email_context, reqVars, ingestVars, singletonVars>>

TimeNext == ParseTimeReference

SpecTime == TimeInit /\ [][TimeNext]_vars

\* 00:00 of the Monday of the week t lies in
MondayOf(t) == t - (t % (7 * Day))

\* C18: for a "last week" query the range starts at 00:00 of the Monday of
\* the week before the current one and ends before the current week begins.
C18_LastWeekIsPriorWeek ==
    (last = "_parse_time_reference" /\ user_query \in LastWeekQueries) =>
        /\ ret.found
        /\ ret.start = MondayOf(args.now) - 7 * Day
        /\ ret.end < MondayOf(args.now)

\* C19: _parse_time_reference returns for every text: no range or a range,
\* never an exception.
C19_ParseNeverRaises ==
    last = "_parse_time_reference" => ~ret.raised

----------------------------------------------------------------------------
(* Thread completeness of the expansion                                    *)

StoredUnder(c) == {store[k].id : k \in {j \in 1..Len(store) : store[j].conversation_id = c}}

SeedThreads == {emails[k].conversation_id : k \in 1..Len(emails)} \ {""}

FetchesOf(c) == {k \in 1..Len(fetches) : fetches[k].conversation_id = c}

----------------------------------------------------------------------------
(* Standalone records, the order of the listing, and missing fields        *)

StandaloneOf(items) == ItemsOf(items, "")

\* C21: every stored record with an empty conversation_id that is received
\* and not replied has exactly one item in the listing, a needs_action item
\* with message_count 1, and the listing holds no other standalone item
\* (none for a standalone record that is sent, or received and replied).
C21_StandaloneItems ==
    last = "get_open_items" =>
        /\ SumN(StandaloneOf(ret)) = SumN(Standalone(store))
        /\ \A k \in 1..Len(StandaloneOf(ret)) :
              /\ StandaloneOf(ret)[k].status = "needs_action"
              /\ StandaloneOf(ret)[k].message_count = 1

\* C22: the listing is ordered by date descending, thread items and
\* standalone items together, and an empty store (or a store whose read
\* fails) gives the empty listing.
C22_NewestFirst ==
    last \in {"get_open_items", "get_open_items_fault"} =>
        /\ \A k \in 1..(Len(ret) - 1) : ret[k].date >= ret[k + 1].date
        /\ store = <<>> => ret = <<>>

\* a standalone item is listed before the item of an older thread
C22_Witness ==
    /\ last = "get_open_items"
    /\ Len(ret) = 2
    /\ ret[1].conversation_id = "" /\ ret[2].conversation_id = "c1"
    /\ ret[1].date > ret[2].date

\* C23: a record without a date (date 0, the empty string) is ordered before
\* every dated record of its thread: when a thread has a dated record, its
\* status is that of the chronologically last dated record; a record without
\* a conversation_id is never part of a thread item; a failing read gives
\* the empty listing.
C23_MissingFieldsAreEdgeValues ==
    /\ last = "get_open_items" =>
          /\ \A c \in ConvsOf(Scanned(store)) :
                LET group == SelectConv(Scanned(store), c)
                    dated == SelectSeq(group, LAMBDA m : m.date # 0)
                IN dated # <<>> =>
                      LET want == ExpectedStatus(dated[OracleIndex(dated)])
                      IN IF want = "completed"
                         THEN ItemsOf(ret, c) = <<>>
                         ELSE /\ Len(ItemsOf(ret, c)) = 1
                              /\ ItemsOf(ret, c)[1].status = want
                              /\ ItemsOf(ret, c)[1].date # 0
          /\ \A k \in 1..Len(ret) :
                ret[k].conversation_id # "" =>
                    ret[k].message_count
                        = SumN(SelectConv(Scanned(store), ret[k].conversation_id))
          /\ \A k \in 1..Len(ret) :
                ret[k].conversation_id = "" => ret[k].message_count = 1
    /\ last = "get_open_items_fault" => ret = <<>>

\* a thread whose undated record is stored after its dated one and would,
\* as the oracle, give needs_action; and an undated standalone record
C23_Witness ==
    /\ last = "get_open_items"
    /\ Len(store) = 3
    /\ store[1].conversation_id = "c1" /\ store[1].date > 0
    /\ store[1].direction = "sent"
    /\ store[2].conversation_id = "c1" /\ store[2].date = 0
    /\ store[2].direction = "received" /\ ~store[2].is_replied
    /\ store[3].conversation_id = "" /\ store[3].date = 0
    /\ store[3].direction = "received" /\ ~store[3].is_replied
    /\ StatusIn(ret, "c1") = "awaiting_response"
    /\ Len(ret) = 2 /\ ret[2].conversation_id = ""


----------------------------------------------------------------------------
(* Inbox summary, tasks and clearing (rag_engine.get_summary,
   rag_engine.get_tasks, vector_store.get_stats, vector_store.clear)       *)

StatsLimit == 1000        \* vector_store.py:257  limit=min(1000, total)
SummaryResults == 5       \* rag_engine.py:228, 234  n_results=5
TaskResults == 10         \* rag_engine.py:271, 277  n_results=10

\* {"$and": [{"direction": d}, {"is_replied": False}]}
OpenWhere(d) ==
    [shape |-> "and",
     conds |-> <<Clause("direction", d), Clause("is_replied", "False")>>]

get_stats(coll) ==
    LET total == CollectionCount(coll)
        sample == CollectionGet(coll, IF total < StatsLimit THEN total ELSE StatsLimit)
    IN [total_emails |-> total,
        sent |-> SumN(SelectSeq(sample, LAMBDA m : m.direction = "sent")),
        received |-> SumN(SelectSeq(sample, LAMBDA m : m.direction # "sent")),
        unread |-> SumN(SelectSeq(sample, LAMBDA m : ~m.is_read))]

\* fault: the call of the collection that raises, "none" when none does;
\* nothing in get_summary catches it
get_summary(coll, rank1, rank2, fault) ==
    LET action_needed == search(coll, rank1, SummaryResults, OpenWhere("received"),
                                fault = "search1", FALSE)
        awaiting == search(coll, rank2, SummaryResults, OpenWhere("sent"),
                           fault = "search2", FALSE)
    IN IF fault = "stats" \/ action_needed.raised \/ awaiting.raised
       THEN [raised |-> TRUE, stats |-> <<>>, action_needed |-> <<>>,
             awaiting_response |-> <<>>]
       ELSE [raised |-> FALSE,
             stats |-> get_stats(coll),
             action_needed |->
                 [k \in 1..Len(action_needed.hits) |->
                     [sender |-> action_needed.hits[k].sender,
                      date |-> action_needed.hits[k].date]],
             awaiting_response |->
                 [k \in 1..Len(awaiting.hits) |->
                     [date |-> awaiting.hits[k].date]]]

\* the open items by status and their counts; the two searches feed the
\* deadline / question tags, which are derived from the subjects and are
\* not part of the modelled record. fault as in get_summary; a fault inside
\* get_open_items is caught there.
get_tasks(coll, rank1, rank2, fault) ==
    LET open_items == get_open_items(coll, fault = "open_items")
        needs_action == SelectSeq(open_items, LAMBDA it : it.status = "needs_action")
        awaiting_response ==
            SelectSeq(open_items, LAMBDA it : it.status = "awaiting_response")
        deadline_emails == search(coll, rank1, TaskResults, OpenWhere("received"),
                                  fault = "search1", FALSE)
        question_emails == search(coll, rank2, TaskResults, OpenWhere("received"),
                                  fault = "search2", FALSE)
    IN IF deadline_emails.raised \/ question_emails.raised
       THEN [raised |-> TRUE, needs_action |-> <<>>, awaiting_response |-> <<>>,
             total_open |-> 0]
       ELSE [raised |-> FALSE,
             needs_action |-> needs_action,
             awaiting_response |-> awaiting_response,
             total_open |-> Len(needs_action) + Len(awaiting_response)]

\* delete_collection, then create_collection
clear(coll) == <<>>

----------------------------------------------------------------------------
(* The operations of the service on one store, one after the other: each
   is called when the result of the one before it has been handed back.    *)

CoreFaults == {"none", "stats", "search1", "search2"}
TaskFaults == {"none", "open_items", "search1", "search2"}

CoreEmails(coll) ==
    {s[Len(s)] : s \in StoresOfLen(Len(coll) + 1, {"", "c1"}, Directions, BOOLEAN,
                                   {16 * Day + 9 * Hour})}
        \cup {coll[k] : k \in 1..Len(coll)}

CoreInit ==
    /\ store = <<>>
    /\ last = "init"
    /\ ret = <<>>
    /\ email_context = <<>>
    /\ NoRequest

CoreAddEmails ==
    /\ pc = "idle" /\ last = "init"
    /\ Len(store) < MaxMailbox
    /\ \E e \in CoreEmails(store) :
          LET r == add_emails(store, <<e>>) IN
          /\ store' = r.coll
          /\ last' = "add_emails"
          /\ ret' = <<r.added>>
    /\ UNCHANGED <<email_context, reqVars, ingestVars, singletonVars>>

CoreClear ==
    /\ pc = "idle" /\ last = "init"
    /\ store' = clear(store)
    /\ last' = "clear"
    /\ ret' = <<>>
    /\ UNCHANGED <<email_context, reqVars, ingestVars, singletonVars>>

\* get_summary that marks the records it lists as read
GetSummary_MarksRead ==
    /\ pc = "idle" /\ last = "init"
    /\ \E rank1 \in Rankings(store), rank2 \in Rankings(store), fault \in CoreFaults :
          LET r == get_summary(store, rank1, rank2, fault) IN
          /\ last' = IF r.raised THEN "get_summary_raised" ELSE "get_summary"
          /\ ret' = r
    /\ store' = [k \in 1..Len(store) |-> [store[k] EXCEPT !.is_read = FALSE]]
    /\ UNCHANGED <<email_context, reqVars, ingestVars, singletonVars>>

GetSummary ==
    /\ pc = "idle" /\ last = "init"
    /\ \E rank1 \in Rankings(store), rank2 \in Rankings(store), fault \in CoreFaults :
          LET r == get_summary(store, rank1, rank2, fault) IN
          /\ last' = IF r.raised THEN "get_summary_raised" ELSE "get_summary"
          /\ ret' = r
    /\ UNCHANGED <<store, email_context, reqVars, ingestVars, singletonVars>>

GetTasks ==
    /\ pc = "idle" /\ last = "init"
    /\ \E rank1 \in Rankings(store), rank2 \in Rankings(store), fault \in TaskFaults :
          LET r == get_tasks(store, rank1, rank2, fault) IN
          /\ last' = IF r.raised THEN "get_tasks_raised" ELSE "get_tasks"
          /\ ret' = r
    /\ UNCHANGED <<store, email_context, reqVars, ingestVars, singletonVars>>

GetThreadEmails ==
    /\ pc = "idle" /\ last = "init"
    /\ \E c \in {"", "c1"}, fault \in BOOLEAN :
          ret' = get_thread_emails(store, c, fault)
    /\ last' = "get_thread_emails"
    /\ UNCHANGED <<store, email_context, reqVars, ingestVars, singletonVars>>

\* the result (or the exception) has been handed to the caller
CoreReturn ==
    /\ \/ pc \in {"returned", "raised", "done", "cancelled"}
       \/ pc = "idle" /\ last # "init"
    /\ last' = "init"
    /\ ret' = <<>>
    /\ email_context' = <<>>
    /\ pc' = "idle" /\ mode' = "none" /\ user_query' = <<>>
    /\ where' = NoFilter /\ calls' = <<>>
    /\ emails' = <<>> /\ cursor' = 1 /\ seen_ids' = {} /\ seen_conv_ids' = {}
    /\ expanded' = <<>> /\ fetches' = <<>>
    /\ events' = <<>> /\ sse' = <<>> /\ produced' = <<>>
    /\ conn' = "none" /\ llm_error' = ""
    /\ passes' = <<>>
    /\ UNCHANGED <<store, workers, handed, args, singletonVars>>

CoreNext ==
    \/ CoreAddEmails
    \/ CoreClear
    \/ GetSummary
    \/ GetTasks
    \/ GetThreadEmails
    \/ (last = "init" /\ OpenGetOpenItems)
    \/ (last = "init" /\ StartRequest)
    \/ Search
    \/ ExpandStep
    \/ ExpandReturn
    \/ Generate
    \/ StreamOpen
    \/ StreamLine
    \/ StreamFault
    \/ StreamSourcesEvent
    \/ StreamDone
    \/ StreamCancel
    \/ (last = "init" /\ PrepSearches)
    \/ PrepReturn
    \/ CoreReturn

SpecCore == CoreInit /\ [][CoreNext]_vars

\* C24: a step that changes the store is a step of add_emails or of clear;
\* every step of query, query_stream, get_summary, get_tasks,
\* get_open_items, get_thread_emails, prepare_for_meeting and
\* prepare_for_meeting_stream, returning or raising, leaves every stored
\* record as it was.
C24_CoreLeavesStore ==
    [][store' # store =>
          pc = "idle" /\ last = "init" /\ last' \in {"add_emails", "clear"}]_vars

\* a summary of a store of MaxMailbox records has listed some of them
C24_Witness ==
    /\ last = "get_summary"
    /\ Len(store) = MaxMailbox
    /\ ret.action_needed # <<>>
    /\ ret.awaiting_response # <<>>

\* C28: every entry of action_needed is the projection of a stored record
\* that is received and not replied, and every entry of awaiting_response
\* that of a stored record that is sent and not replied.
C28_SummaryListsMatchFilters ==
    last = "get_summary" =>
        /\ \A k \in 1..Len(ret.action_needed) :
              \E j \in 1..Len(store) :
                 /\ store[j].direction = "received" /\ ~store[j].is_replied
                 /\ store[j].sender = ret.action_needed[k].sender
                 /\ store[j].date = ret.action_needed[k].date
        /\ \A k \in 1..Len(ret.awaiting_response) :
              \E j \in 1..Len(store) :
                 /\ store[j].direction = "sent" /\ ~store[j].is_replied
                 /\ store[j].date = ret.awaiting_response[k].date


----------------------------------------------------------------------------
(* Numbering and order of the rendered context                             *)

\* the rendered messages, thread headers left out
Rendered(parts) == SelectSeq(parts, LAMBDA p : p.kind # "thread")

\* the position in the input of the record with the given id
InputPos(recs, id) == CHOOSE i \in 1..Len(recs) : recs[i].id = id

\* C25: every input record is rendered exactly once; the n rendered
\* messages carry the indices 1..n in render order, the threaded messages
\* before the standalone ones; the empty input gives the sentinel and no
\* rendered message.
C25_EveryRecordOnceIndexed ==
    last = "_format_email_context" =>
        LET msgs == Rendered(ret.parts) IN
        IF email_context = <<>>
        THEN ret.sentinel /\ ret.parts = <<>>
        ELSE /\ ~ret.sentinel
             /\ Len(msgs) = Len(email_context)
             /\ \A k \in 1..Len(msgs) : msgs[k].idx = k
             /\ \A i \in 1..Len(email_context) :
                   Cardinality({k \in 1..Len(msgs) :
                                   msgs[k].id = email_context[i].id}) = 1
             /\ \A k, j \in 1..Len(msgs) :
                   (k < j /\ msgs[j].kind = "message") => msgs[k].kind = "message"

\* a standalone record handed in first is numbered last
C25_Witness ==
    /\ last = "_format_email_context"
    /\ Len(email_context) = 3
    /\ email_context[1].conversation_id = ""
    /\ email_context[2].conversation_id = "c1"
    /\ email_context[3].conversation_id = "c2"
    /\ Rendered(ret.parts)[3].id = 1 /\ Rendered(ret.parts)[3].idx = 3

C26_Order ==
    last = "_format_email_context" =>
        LET parts == ret.parts
            FirstPos(c) == CHOOSE i \in 1..Len(email_context) :
                              /\ email_context[i].conversation_id = c
                              /\ \A j \in 1..(i - 1) :
                                    email_context[j].conversation_id # c
            DateOf(id) == email_context[InputPos(email_context, id)].date
        IN \A k, j \in 1..Len(parts) :
              k < j =>
                 /\ (parts[k].kind = "thread" /\ parts[j].kind = "thread")
                       => FirstPos(parts[k].conversation_id)
                            < FirstPos(parts[j].conversation_id)
                 /\ (parts[k].kind = "thread" /\ parts[j].kind = "message"
                     /\ \A h \in (k + 1)..(j - 1) : parts[h].kind = "message")
                       => parts[j].conversation_id = parts[k].conversation_id
                 /\ (parts[k].kind = "message" /\ parts[j].kind = "message"
                     /\ parts[k].conversation_id = parts[j].conversation_id)
                       => \/ DateOf(parts[k].id) < DateOf(parts[j].id)
                          \/ /\ DateOf(parts[k].id) = DateOf(parts[j].id)
                             /\ InputPos(email_context, parts[k].id)
                                  < InputPos(email_context, parts[j].id)
                 /\ (parts[k].kind = "standalone" /\ parts[j].kind = "standalone")
                       => InputPos(email_context, parts[k].id)
                            < InputPos(email_context, parts[j].id)

\* C26: threads are rendered in the order their ids are first seen in the
\* input, each header followed by the messages of its thread in ascending
\* date order with equal dates in input order; standalone records are
\* rendered in input order; the call leaves the input list as it was.
C26_RenderOrderInputKept ==
    /\ []C26_Order
    /\ [][last' = "_format_email_context" => email_context' = email_context]_vars

\* two messages of equal date and an older one handed in after them
C26_Witness ==
    /\ last = "_format_email_context"
    /\ Len(email_context) = 3
    /\ \A i \in 1..3 : email_context[i].conversation_id = "c1"
    /\ email_context[1].date = 2 /\ email_context[2].date = 2
    /\ email_context[3].date = 1
    /\ Rendered(ret.parts)[1].id = 3
    /\ Rendered(ret.parts)[2].id = 1
    /\ Rendered(ret.parts)[3].id = 2


----------------------------------------------------------------------------
(* Ranges of the "last / past N days" texts                                *)

\* the texts of TimeQueries that only the days pattern matches, with their N
DaysQueries ==
    {[query |-> <<"l", "a", "s", "t", " ", "3", " ", "d", "a", "y", "s">>, days |-> 3],
     [query |-> <<"p", "a", "s", "t", " ", "3", "0", " ", "d", "a", "y">>, days |-> 30],
     [query |-> <<"m", "a", "i", "l", " ", "o", "f", " ", "t", "h", "e", " ", "l", "a", "s", "t", " ", " ", "7", " ", " ", "d", "a", "y", "s">>, days |-> 7],
     [query |-> <<"L", "a", "s", "t", " ", "0", " ", "d", "a", "y", "s">>, days |-> 0],
     [query |-> <<"p", "a", "s", "t", " ", "0", "0", "1", " ", "d", "a", "y", "s", "!">>, days |-> 1]}

\* C27: a text matched only by the days pattern gives (now - N days, now),
\* for N = 0 the range start = end = now; every range returned, for any
\* text and any now, has start <= end.
C27_DaysRange ==
    last = "_parse_time_reference" =>
        /\ \A dq \in DaysQueries :
              user_query = dq.query =>
                  /\ ret.found
                  /\ ret.start = args.now - dq.days * Day
                  /\ ret.end = args.now
        /\ ret.found => ret.start <= ret.end

\* "Last 0 days" at 00:00:30 gives the range from now to now
C27_Witness ==
    /\ last = "_parse_time_reference"
    /\ user_query = <<"L", "a", "s", "t", " ", "0", " ", "d", "a", "y", "s">>
    /\ args.now % Day = 30
    /\ ret.found /\ ret.start = args.now /\ ret.end = args.now


----------------------------------------------------------------------------
(* Reach of the keywords of the sent follow-up rule                        *)

\* C30: the text that consists of a keyword of the sent follow-up rule is
\* classified sent_followup. (A text that contains the keyword holds every
\* action keyword the keyword holds, so some text with the keyword is
\* classified sent_followup exactly when the keyword itself is.)
C30_FollowupKeywordsSelectRule ==
    last = "_detect_query_type" =>
        \A k \in 1..Len(FollowupKeywords) :
            Lower(user_query) = FollowupKeywords[k] => ret.type = "sent_followup"


----------------------------------------------------------------------------
(* The accessors of the shared instances (vector_store.get_vector_store,
   llm_client.get_ollama_client, rag_engine.get_rag_engine) called by the
   threads of the server (app.run(..., threaded=True)).  A thread can be
   switched out between any two of: the test of the global, the
   construction, the assignment, the read of the global for the return.    *)

Accessors == {"get_vector_store", "get_ollama_client", "get_rag_engine"}

\* the module global an accessor guards, and the class it constructs
GlobalOf(fn) ==
    CASE fn = "get_vector_store" -> "_store"
      [] fn = "get_ollama_client" -> "_client"
      [] fn = "get_rag_engine" -> "_engine"

ClassOf(fn) ==
    CASE fn = "get_vector_store" -> "EmailVectorStore"
      [] fn = "get_ollama_client" -> "OllamaClient"
      [] fn = "get_rag_engine" -> "RAGEngine"

Frame(fn, at, obj) == [fn |-> fn, pc |-> at, obj |-> obj]

Top(t) == callers[t].stack[Len(callers[t].stack)]

\* the stack of thread t with its top frame replaced
WithTop(t, frame) ==
    [callers EXCEPT ![t].stack = [@ EXCEPT ![Len(@)] = frame]]

\* the position a frame takes up again when the call it made has returned
AfterCall(frame) ==
    CASE frame.pc = "init_store" -> [frame EXCEPT !.pc = "init_llm"]
      [] frame.pc = "init_llm" -> [frame EXCEPT !.pc = "assign"]

SingletonInit ==
    /\ store = <<>>
    /\ last = "init"
    /\ ret = <<>>
    /\ email_context = <<>>
    /\ NoRequest

\* a request handler calls an accessor
AccessorCall ==
    /\ \E t \in Threads, fn \in Accessors :
          /\ callers[t].stack = <<>>
          /\ Len(callers[t].received) < MaxGets
          /\ callers' = [callers EXCEPT ![t].stack = <<Frame(fn, "test", 0)>>]
    /\ UNCHANGED <<store, last, ret, email_context, reqVars, ingestVars,
                   globals, instances>>

\* if _x is None:
AccessorTest ==
    /\ \E t \in Threads :
          /\ callers[t].stack # <<>>
          /\ Top(t).pc = "test"
          /\ callers' = WithTop(t, [Top(t) EXCEPT !.pc =
                            IF globals[GlobalOf(Top(t).fn)] = 0
                            THEN "construct" ELSE "return"])
    /\ UNCHANGED <<store, last, ret, email_context, reqVars, ingestVars,
                   globals, instances>>

\* EmailVectorStore(), OllamaClient(...), RAGEngine(): a new instance; the
\* __init__ of RAGEngine goes on to call the two other accessors
AccessorConstruct ==
    /\ \E t \in Threads :
          /\ callers[t].stack # <<>>
          /\ Top(t).pc = "construct"
          /\ LET class == ClassOf(Top(t).fn)
                 obj == instances[class] + 1
             IN /\ instances' = [instances EXCEPT ![class] = obj]
                /\ callers' = WithTop(t, [Top(t) EXCEPT
                       !.obj = obj,
                       !.pc = IF Top(t).fn = "get_rag_engine"
                              THEN "init_store" ELSE "assign"])
    /\ UNCHANGED <<store, last, ret, email_context, reqVars, ingestVars, globals>>

\* RAGEngine.__init__: self.vector_store = get_vector_store();
\* self.llm = get_ollama_client()
AccessorInit ==
    /\ \E t \in Threads :
          /\ callers[t].stack # <<>>
          /\ Top(t).pc \in {"init_store", "init_llm"}
          /\ callers' = [callers EXCEPT ![t].stack =
                 Append(@, Frame(IF Top(t).pc = "init_store"
                                 THEN "get_vector_store" ELSE "get_ollama_client",
                                 "test", 0))]
    /\ UNCHANGED <<store, last, ret, email_context, reqVars, ingestVars,
                   globals, instances>>

\* _x = <the new instance>
AccessorAssign ==
    /\ \E t \in Threads :
          /\ callers[t].stack # <<>>
          /\ Top(t).pc = "assign"
          /\ globals' = [globals EXCEPT ![GlobalOf(Top(t).fn)] = Top(t).obj]
          /\ callers' = WithTop(t, [Top(t) EXCEPT !.pc = "return"])
    /\ UNCHANGED <<store, last, ret, email_context, reqVars, ingestVars, instances>>

\* return _x: the value the global holds now goes to the caller, a request
\* handler or the __init__ of RAGEngine
AccessorReturn ==
    /\ \E t \in Threads :
          /\ callers[t].stack # <<>>
          /\ Top(t).pc = "return"
          /\ LET stack == callers[t].stack
                 value == globals[GlobalOf(Top(t).fn)]
             IN IF Len(stack) = 1
                THEN callers' = [callers EXCEPT
                        ![t].stack = <<>>,
                        ![t].received = Append(@, [fn |-> Top(t).fn,
                                                   instance |-> value])]
                ELSE callers' = [callers EXCEPT ![t].stack =
                        Append(SubSeq(stack, 1, Len(stack) - 2),
                               AfterCall(stack[Len(stack) - 1]))]
    /\ UNCHANGED <<store, last, ret, email_context, reqVars, ingestVars,
                   globals, instances>>

SingletonNext ==
    \/ AccessorCall
    \/ AccessorTest
    \/ AccessorConstruct
    \/ AccessorInit
    \/ AccessorAssign
    \/ AccessorReturn

SpecSingleton == SingletonInit /\ [][SingletonNext]_vars

\* C29: at most one EmailVectorStore, one OllamaClient and one RAGEngine is
\* ever constructed, and all callers of an accessor receive the same
\* instance.
C29_OneInstanceEach ==
    /\ instances.EmailVectorStore <= 1
    /\ instances.OllamaClient <= 1
    /\ instances.RAGEngine <= 1
    /\ \A t, u \in Threads :
          \A k \in 1..Len(callers[t].received), j \in 1..Len(callers[u].received) :
              callers[t].received[k].fn = callers[u].received[j].fn
                  => callers[t].received[k].instance = callers[u].received[j].instance

====
